---- MODULE Spec2Model ----
(***************************************************************************)
(* Tool-call orchestration loops of the MCP chat front ends:               *)
(*   agent : src/agent_server.py        chat_endpoint  (HTTP agent)        *)
(*   cli   : src/mcp_client.py          llm_mode       (CLI client)        *)
(*   be    : src/mcp_server/_mcp_be.py  chat_process   (streaming backend, *)
(*           provider gemini | groq | openai)                              *)
(* The model (the LLM) and the tool servers are the environment: every     *)
(* send and every call_tool either returns or raises.                      *)
(***************************************************************************)
EXTENDS Integers, Sequences, FiniteSets, TLC

VARIABLES
    variant,        \* which orchestration program runs: "agent" | "cli" | "be" | "create"
    provider,       \* be: request.provider
    pc,             \* position of the handler
    response,       \* the model response being inspected
    outmsg,         \* the message about to be sent / last sent to the model (current_message)
    results,        \* tool results constructed since the current response was received
    rounds,         \* tool-result messages the model answered in this interaction
    execs,          \* session.call_tool invocations made for the response under inspection
    lastTool,       \* outcome of the latest call_tool: "none" | "ok" | "raised"
    commands,       \* agent: the client command queue
    final_text,     \* agent / cli: text extracted from the last response
    status,         \* agent: HTTP status of the reply (0 while running)
    err,            \* the exception that reached the interaction boundary
    mi,             \* agent: index in MODEL_PRIORITY of the model being attempted
    last_error,     \* agent: last_error of the fallback loop
    current_model,  \* cli, agent: model the chat session is bound to
    excluded,       \* cli: safe_send_message's exclusion list
    tried,          \* cli: models that received the message of the running safe_send_message
    ctx,            \* cli: caller of the running safe_send_message: "user" | "tool"
    function_calls, \* be: calls collected from the response, in dispatch order
    ci,             \* be: index of the call being dispatched
    turn,           \* be groq/openai: iterations of `for _ in range(max_turns)` started
    messages,       \* be groq/openai: the message list sent with every request
    events,         \* be: events yielded since the latest model request
    instFail,       \* create: models whose chats.create raises
    exc,            \* cli: the exception e that `raise e` surfaced, named by the model whose send raised it
    chat,           \* cli: the chat session object: its identity and the turn history it holds
    rid,            \* agent: the /chat request whose coroutine is running
    other,          \* agent: the frame (local variables) of a second /chat request, suspended at an await
    origin,         \* agent: for every entry of commands, the request whose coroutine appended it
    si,             \* be: position in mcp_urls (urls that are not blank) of the server being connected
    sessions,       \* be: the servers connected, initialized and listed, in order
    all_tools,      \* be: the tools listed by the connected servers, in order
    tool_to_session, \* be: for a tool name, the server that serves it
    closed,         \* be: the AsyncExitStack has been unwound after the provider path returned
    fn,             \* pure functions: the function that is called on its own
    call_args,      \* pure functions: the arguments of the call; be: the last
                    \* session.call_tool of the groq / openai path
    returned,       \* pure functions: the value the call returned
    clock,          \* check_mcp: seconds elapsed since asyncio.wait_for was entered
    config,         \* be: api_key and base_url of the request, the key of the environment and whether the provider module is installed, until the client is initialised
    turn_excluded   \* cli: history, the models excluded since the user message of the turn

vars == <<variant, provider, pc, response, outmsg, results, rounds, execs,
          lastTool, commands, final_text, status, err, mi, current_model,
          excluded, tried, ctx, function_calls, ci, turn, messages, events,
          instFail, last_error,
          exc,
          chat,
          rid,
          other,
          origin,
          si,
          sessions,
          all_tools,
          tool_to_session,
          closed,
          fn,
          call_args,
          returned,
          clock,
          config,
          turn_excluded>>

-----------------------------------------------------------------------------
(* Bounds of the model *)

NumModels == 3      \* length of the prefix of MODEL_PRIORITY that is modelled
MaxParts == 2       \* parts of one model response (or of one streamed chunk)
MaxChunks == 2      \* chunks of one streamed response
MaxCalls == 2       \* tool_calls of one groq/openai response
MaxRounds == 6      \* cap on the tool rounds of the unbounded `while True` loops
MaxExecs == 2       \* cap on the call_tool invocations made for one response (cli retry loop)
NumServers == 2     \* length of mcp_urls: the tool servers of one backend request
MaxDepth == 2       \* nesting depth of the schema of a tool parameter
MaxUrlLen == 2      \* characters of the url given to /check-mcp
MaxDelay == 6       \* seconds after which a server answers a connection attempt at the latest
MaxRecords == 52    \* records of the shapes database that pass the filters of a listing call
MaxLimit == 52      \* largest `limit` argument of a listing call
MaxItems == 2       \* content items of the result of a tool call
MaxTextLen == 1     \* characters of the text of one content item
MaxBeRounds == 1    \* cap on the tool rounds of the backend's unbounded `while True` loop
MaxRoundsTwo == 1   \* cap on the tool rounds of each of two concurrent /chat requests

-----------------------------------------------------------------------------
(* Program constants *)

ALL_MODELS ==
    << "gemini-3-flash-preview", "gemini-2.5-flash", "gemini-exp-1206",
       "gemini-2.0-flash", "gemini-2.0-flash-001", "gemini-2.5-flash-lite",
       "gemini-2.0-flash-lite", "gemini-2.0-flash-lite-001",
       "gemini-2.0-flash-lite-preview-02-05" >>

MODEL_PRIORITY == SubSeq(ALL_MODELS, 1, NumModels)

Models == {MODEL_PRIORITY[i] : i \in 1..Len(MODEL_PRIORITY)}

CLIENT_TOOL_NAMES == {"highlight", "view", "toggle_layer", "clear_highlight", "click"}

max_turns == 5

\* asyncio.wait_for(try_connect(), timeout=5.0)
timeout == 5

-----------------------------------------------------------------------------
(* Values exchanged with the environment *)

SeqsUpTo(S, n) == UNION {[1..k -> S] : k \in 0..n}

\* names the model may call: one remote (MCP) tool, one client UI tool
CallNames == {"count_objects", "toggle_layer"}

\* text a model may put in a text part:
\*   plain       prose without braces or fences
\*   fenced_cmd  ```json {"command": "highlight"} ```
\*   raw_cmd     {"command": "view"}
\*   fenced_bad  ```json {"command": } ```      (json.loads raises)
TextBodies == {"plain", "fenced_cmd", "raw_cmd", "fenced_bad"}

\* fc.args of a function call: a dict from parameter names to values
CallArgs == {[action |-> "show"]}

NoArgs == [k \in {} |-> ""]

Parts ==
    [kind : {"text"}, body : TextBodies, args : {NoArgs}]
    \cup [kind : {"fc"}, body : CallNames, args : CallArgs]

\* a (non-streamed) Gemini response: no candidates, candidates[0].content.parts
\* None, or the list of parts
\* The text of a response that also holds a function call is never read
\* (the loop answers the call and inspects the next response), so only plain
\* text stands next to calls.
GeminiResponses ==
    {[shape |-> "parts", parts |-> p] : p \in
        {q \in SeqsUpTo(Parts, MaxParts) :
            (\E i \in 1..Len(q) : q[i].kind = "fc")
               => \A i \in 1..Len(q) : q[i].kind = "text" => q[i].body = "plain"}}
    \cup {[shape |-> "no_candidates", parts |-> <<>>], [shape |-> "parts_none", parts |-> <<>>]}

NoResponse == [shape |-> "no_candidates", parts |-> <<>>]

\* `not response.candidates or not response.candidates[0].content.parts`
NoParts(r) == r.shape # "parts" \/ r.parts = <<>>

NoMsg == [kind |-> "none", idx |-> 0, name |-> "", field |-> "", body |-> ""]

UserMsg == [kind |-> "user", idx |-> 0, name |-> "", field |-> "", body |-> "query"]

\* Part(function_response=FunctionResponse(name=.., response={field: body}))
FunctionResponseMsg(i, n, f, b) ==
    [kind |-> "function_response", idx |-> i, name |-> n, field |-> f, body |-> b]

\* index of the first function_call part at or after position i, 0 if none:
\* `for part in parts: if part.function_call:`
RECURSIVE FirstCallFrom(_, _)
FirstCallFrom(parts, i) ==
    IF i > Len(parts) THEN 0
    ELSE IF parts[i].kind = "fc" THEN i
    ELSE FirstCallFrom(parts, i + 1)

\* the scan without the `if part.function_call` test: the first part is
\* taken for a call
FirstCallNoTest(parts) == IF parts = <<>> THEN 0 ELSE 1

FirstCall(parts) == FirstCallFrom(parts, 1)

\* `for part in parts: if hasattr(part, 'text') and part.text: final_text += part.text`
RECURSIVE ExtractText(_)
ExtractText(parts) ==
    IF parts = <<>> THEN <<>>
    ELSE IF Head(parts).kind = "text"
         THEN <<Head(parts).body>> \o ExtractText(Tail(parts))
         ELSE ExtractText(Tail(parts))

-----------------------------------------------------------------------------
(* agent: recovery of commands from the final text                         *)

\* a parsed JSON value that is not an object (the 1 of a block ```json [1]```),
\* tagged so that it can stand in one list with the objects
JsonScalar == [json_scalar |-> 1]

IsDict(v) == "json_scalar" \notin DOMAIN v

\* the texts a final answer may be made of: those of TextBodies, a fenced
\* block holding an object without a "command" key and a fenced block
\* holding a list of numbers
ParseBodies ==
    {"plain", "fenced_cmd", "raw_cmd", "fenced_bad", "fenced_nocmd", "fenced_list"}

\* Strategy 1: every ```json ... ``` block, in order; json.loads of a block
\* that fails is skipped
\* Strategy 1 without the `except: pass` around json.loads: the block that
\* does not parse is queued as it stands
RECURSIVE FencedCommandsKeepBad(_)
FencedCommandsKeepBad(text) ==
    IF text = <<>> THEN <<>>
    ELSE IF Head(text) = "fenced_cmd"
         THEN <<[command |-> "highlight"]>> \o FencedCommandsKeepBad(Tail(text))
         ELSE IF Head(text) = "fenced_bad"
              THEN <<[command |-> "unparsed"]>> \o FencedCommandsKeepBad(Tail(text))
              ELSE IF Head(text) = "fenced_nocmd"
                   THEN <<[note |-> "x"]>> \o FencedCommandsKeepBad(Tail(text))
                   ELSE IF Head(text) = "fenced_list"
                        THEN <<JsonScalar>> \o FencedCommandsKeepBad(Tail(text))
                        ELSE FencedCommandsKeepBad(Tail(text))

RECURSIVE FencedCommands(_)
FencedCommands(text) ==
    IF text = <<>> THEN <<>>
    ELSE IF Head(text) = "fenced_cmd"
         THEN <<[command |-> "highlight"]>> \o FencedCommands(Tail(text))
         ELSE IF Head(text) = "fenced_nocmd"
              THEN \* isinstance(parsed, dict): appended whatever its keys
                   <<[note |-> "x"]>> \o FencedCommands(Tail(text))
              ELSE IF Head(text) = "fenced_list"
                   THEN \* isinstance(parsed, list): commands.extend(parsed)
                        <<JsonScalar>> \o FencedCommands(Tail(text))
                   ELSE FencedCommands(Tail(text))

HasBraces(body) == body \in {"fenced_cmd", "raw_cmd", "fenced_bad", "fenced_nocmd"}

BraceSegments(text) == {i \in 1..Len(text) : HasBraces(text[i])}

\* Strategy 2: re.findall(r'\{[\s\S]*\}') is greedy, so it yields one match
\* running from the first brace to the last; it parses only when that span
\* is a single object.
RawCommands(text) ==
    IF Cardinality(BraceSegments(text)) = 1
       /\ \E i \in BraceSegments(text) : text[i] \in {"raw_cmd", "fenced_cmd"}
    THEN <<[command |-> "view"]>>
    ELSE <<>>

LegacyParse(cmds, text) ==
    LET afterBlocks == cmds \o FencedCommands(text)
    IN  IF afterBlocks = <<>> THEN afterBlocks \o RawCommands(text)
        ELSE afterBlocks

-----------------------------------------------------------------------------
(* agent: chat_endpoint of src/agent_server.py                             *)

\* lines 311-313: cmd = {"command": fc.name}; cmd.update(fc.args)
Command(name, args) ==
    LET cmd == [command |-> name] IN
    [k \in DOMAIN cmd \cup DOMAIN args |-> IF k \in DOMAIN args THEN args[k] ELSE cmd[k]]

\* no second request is being served
NoFrame == [pc |-> "absent"]

\* what the model may answer: any response when one request is served; when
\* two requests are served at once, a text, a client call or a remote call
AgentResponses ==
    IF other = NoFrame THEN GeminiResponses
    ELSE {[shape |-> "parts", parts |-> <<p>>] :
            p \in {q \in Parts : q.kind = "fc" \/ q.body = "plain"}}

AgentRoundCap == IF other = NoFrame THEN MaxRounds ELSE MaxRoundsTwo

\* the exception handler of chat_endpoint: every exception raised inside the
\* `try` (HTTPException included) is answered with status 500
AgentFail(e) ==
    /\ pc' = "a_done"
    /\ status' = 500
    /\ err' = e

\* the chat created before the loop, once, with the first model of the list
ChatOfFirst(i) == MODEL_PRIORITY[1]

\* lines 268-274: chat = gemini_client.chats.create(model=model_name, ...)
ChatOf(i) == MODEL_PRIORITY[i]

\* one iteration of `for model_name in MODEL_PRIORITY`: chats.create and
\* send_message(request.query); the model answers, answers nothing, or raises
AgentTryModel ==
    /\ variant = "agent"
    /\ pc = "a_models"
    /\ mi <= Len(MODEL_PRIORITY)
    /\ \/ \E r \in AgentResponses :
            /\ response' = r
            /\ current_model' = ChatOf(mi)
            /\ pc' = "a_loop"
            /\ UNCHANGED <<mi, status, err, last_error>>
       \/ \E e \in {"model_error", "no_response"} :
            /\ mi' = mi + 1
            /\ last_error' = IF e = "model_error" THEN e ELSE last_error
            /\ \/ current_model' = ChatOf(mi)
               \/ \* chats.create raised: `chat` is not assigned
                  e = "model_error" /\ current_model' = current_model
            /\ IF mi' > Len(MODEL_PRIORITY)
               THEN AgentFail("all_models_failed")
               ELSE /\ pc' = "a_models"
                    /\ UNCHANGED <<status, err>>
            /\ UNCHANGED response
    /\ outmsg' = UserMsg
    /\ UNCHANGED <<variant, provider, turn_excluded, config, clock, returned, call_args, fn, closed, tool_to_session, all_tools, sessions, si, origin, other, rid, chat, exc, results, rounds, execs, lastTool, commands,
                   final_text, excluded, tried, ctx,
                   function_calls, ci, turn, messages, events, instFail>>

\* top of `while True`: scan the parts for the first function call and
\* execute it (client tools are queued, MCP tools are called)
AgentInspect ==
    /\ variant = "agent"
    /\ pc = "a_loop"
    /\ LET i == FirstCall(response.parts) IN
       IF NoParts(response) \/ i = 0
       THEN /\ pc' = "a_extract"
            /\ UNCHANGED <<outmsg, results, execs, lastTool, commands, origin>>
       ELSE LET name == response.parts[i].body IN
            IF name \in CLIENT_TOOL_NAMES
            THEN LET m == FunctionResponseMsg(i, name, "result", "Command sent to client UI.") IN
                 /\ commands' = Append(commands, Command(name, response.parts[i].args))
                 /\ origin' = Append(origin, rid)
                 /\ outmsg' = m
                 /\ results' = Append(results, m)
                 /\ pc' = "a_send_ack"
                 /\ UNCHANGED <<execs, lastTool>>
            ELSE /\ execs' = execs + 1
                 /\ \E ok \in BOOLEAN :
                      LET m == IF ok THEN FunctionResponseMsg(i, name, "result", "tool_output")
                                     ELSE FunctionResponseMsg(i, name, "error", "tool_error")
                      IN  /\ lastTool' = IF ok THEN "ok" ELSE "raised"
                          /\ outmsg' = m
                          /\ results' = Append(results, m)
                          /\ pc' = IF ok THEN "a_send_result" ELSE "a_send_error"
                 /\ UNCHANGED <<commands, origin>>
    /\ UNCHANGED <<variant, provider, turn_excluded, config, clock, returned, call_args, fn, closed, tool_to_session, all_tools, sessions, si, other, rid, chat, exc, response, rounds, final_text, status,
                   err, mi, current_model, excluded, tried, ctx, function_calls, ci,
                   turn, messages, events, instFail, last_error>>

\* chat.send_message(<function response>): lines 322, 342 and 352
AgentSend ==
    /\ variant = "agent"
    /\ pc \in {"a_send_ack", "a_send_result", "a_send_error"}
    /\ rounds < AgentRoundCap
    /\ \/ \E r \in AgentResponses :
            /\ response' = r
            /\ rounds' = rounds + 1
            /\ results' = <<>>
            /\ execs' = 0
            /\ lastTool' = "none"
            /\ pc' = "a_loop"
            /\ UNCHANGED <<outmsg, status, err>>
       \/ \* the send raises
          IF pc = "a_send_result"
          THEN \* line 342 is inside the `try` of the tool call: handled at 344
               LET m == FunctionResponseMsg(outmsg.idx, outmsg.name, "error", "model_error") IN
               /\ outmsg' = m
               /\ results' = Append(results, m)
               /\ pc' = "a_send_error"
               /\ UNCHANGED <<response, rounds, execs, lastTool, status, err>>
          ELSE /\ AgentFail("model_error")
               /\ UNCHANGED <<response, rounds, execs, lastTool, outmsg, results>>
    /\ UNCHANGED <<variant, provider, turn_excluded, config, clock, returned, call_args, fn, closed, tool_to_session, all_tools, sessions, si, origin, other, rid, chat, exc, commands, final_text, mi,
                   current_model, excluded, tried, ctx, function_calls, ci,
                   turn, messages, events, instFail, last_error>>

\* lines 358-398: final text, legacy JSON parsing, the reply
AgentExtract ==
    /\ variant = "agent"
    /\ pc = "a_extract"
    /\ IF response.shape # "parts"
       THEN \* candidates[0] raises IndexError, iterating None raises TypeError
            /\ AgentFail(IF response.shape = "no_candidates" THEN "index_error" ELSE "type_error")
            /\ UNCHANGED <<final_text, commands, origin>>
       ELSE /\ final_text' = ExtractText(response.parts)
            /\ commands' = LegacyParse(commands, final_text')
            /\ origin' = origin \o [j \in 1..(Len(commands') - Len(commands)) |-> rid]
            /\ pc' = "a_done"
            /\ status' = 200
            /\ UNCHANGED err
    /\ UNCHANGED <<variant, provider, turn_excluded, config, clock, returned, call_args, fn, closed, tool_to_session, all_tools, sessions, si, other, rid, chat, exc, response, outmsg, results, rounds,
                   execs, lastTool, mi, current_model, excluded, tried, ctx,
                   function_calls, ci, turn, messages, events, instFail, last_error>>

\* the local variables of the running chat_endpoint coroutine
Frame ==
    [rid |-> rid, pc |-> pc, response |-> response, outmsg |-> outmsg,
     results |-> results, rounds |-> rounds, execs |-> execs,
     lastTool |-> lastTool, commands |-> commands, origin |-> origin,
     final_text |-> final_text, status |-> status, err |-> err, mi |-> mi,
     last_error |-> last_error, current_model |-> current_model]

\* the frame of a request that has been accepted and has not run yet
FreshFrame(r) ==
    [rid |-> r, pc |-> "a_models", response |-> NoResponse, outmsg |-> NoMsg,
     results |-> <<>>, rounds |-> 0, execs |-> 0, lastTool |-> "none",
     commands |-> <<>>, origin |-> <<>>, final_text |-> <<>>, status |-> 0,
     err |-> "none", mi |-> 1, last_error |-> "none", current_model |-> ""]

\* the coroutine is at an `await`: session.initialize / list_tools (lines
\* 237-241, before the first model is tried), session.call_tool (line 326,
\* its outcome is the one result built so far), or it has returned;
\* chat.send_message is a blocking call and yields to no other request
AtAwait ==
    \/ pc = "a_models" /\ mi = 1
    \/ pc \in {"a_send_result", "a_send_error"} /\ Len(results) = 1
    \/ pc = "a_done"

\* `commands` as a list shared by the requests: the resumed coroutine sees
\* the list as the suspended one left it
SharedQueue(current, saved) == current

\* line 293: `commands` is a local of the coroutine: the resumed coroutine
\* sees the list of its own frame
ResumedQueue(current, saved) == saved

\* the event loop suspends the running request at an await and resumes the
\* other one
AgentSwitch ==
    /\ variant = "agent"
    /\ other # NoFrame
    /\ other.pc # "a_done"
    /\ AtAwait
    /\ other' = Frame
    /\ rid' = other.rid
    /\ pc' = other.pc
    /\ response' = other.response
    /\ outmsg' = other.outmsg
    /\ results' = other.results
    /\ rounds' = other.rounds
    /\ execs' = other.execs
    /\ lastTool' = other.lastTool
    /\ commands' = ResumedQueue(commands, other.commands)
    /\ origin' = ResumedQueue(origin, other.origin)
    /\ final_text' = other.final_text
    /\ status' = other.status
    /\ err' = other.err
    /\ mi' = other.mi
    /\ last_error' = other.last_error
    /\ current_model' = other.current_model
    /\ UNCHANGED <<variant, provider, turn_excluded, config, clock, returned, call_args, fn, closed, tool_to_session, all_tools, sessions, si, chat, exc, excluded, tried,
                   ctx, function_calls, ci, turn, messages, events, instFail>>

-----------------------------------------------------------------------------
(* cli: llm_mode of src/mcp_client.py                                      *)

\* create_chat_session: the first model of MODEL_PRIORITY, from position i
\* on, that is not excluded and whose chats.create does not raise; "" stands
\* for the (None, None) of line 177
\* create_chat_session without the `if model_name in excluded_models: continue`
RECURSIVE CreateFromNoSkip(_, _, _)
CreateFromNoSkip(i, excl, fail) ==
    IF i > Len(MODEL_PRIORITY) THEN ""
    ELSE IF MODEL_PRIORITY[i] \in fail THEN CreateFromNoSkip(i + 1, excl, fail)
    ELSE MODEL_PRIORITY[i]

RECURSIVE CreateFrom(_, _, _)
CreateFrom(i, excl, fail) ==
    IF i > Len(MODEL_PRIORITY) THEN ""
    ELSE IF MODEL_PRIORITY[i] \in excl THEN CreateFrom(i + 1, excl, fail)
    ELSE IF MODEL_PRIORITY[i] \in fail THEN CreateFrom(i + 1, excl, fail)
    ELSE MODEL_PRIORITY[i]

create_chat_session(excl, fail) == CreateFrom(1, excl, fail)

\* a chat session object: id tells objects apart (an id is free again once
\* its object is dropped), history are the messages the session has answered
Session(i, h) == [id |-> i, history |-> h]

\* line 180: the session of the first create_chat_session()
InitialChat == Session(1, <<>>)

\* an object created while the session `live` is still referenced
FreshId(live) == CHOOSE i \in 1..2 : i # live

\* the number of the message being sent: 0 the user message, k the result
\* of tool round k
MsgNo(c, r) == IF c = "user" THEN 0 ELSE r + 1

\* send_message succeeded: the session holds one more turn
Answered(c, m) == Session(c.id, Append(c.history, m))

\* the history reads that find nothing to pass on (`current_history = None`)
CurrentHistoryNone(c) == <<>>

\* lines 200-206: current_history = chat._curated_history
CurrentHistory(c) == c.history

\* lines 132-175 and 208-213: chats.create(model=.., history=history) builds
\* a new session object holding a copy of the history handed over
NewSession(c, h) == Session(FreshId(c.id), h)

\* the cli offers the model only the remote tools and prints the text as it is
CliParts == [kind : {"text"}, body : {"plain"}] \cup [kind : {"fc"}, body : {"count_objects"}]

CliResponses ==
    {[shape |-> "parts", parts |-> p] : p \in SeqsUpTo(CliParts, MaxParts)}
    \cup {[shape |-> "no_candidates", parts |-> <<>>], [shape |-> "parts_none", parts |-> <<>>]}

\* line 232: response = safe_send_message(user_input)
CliUserTurnBody ==
    /\ variant = "cli"
    /\ pc = "c_input"
    /\ outmsg' = UserMsg
    /\ excluded' = {}
    /\ tried' = <<>>
    /\ ctx' = "user"
    /\ err' = "none"
    /\ exc' = ""
    /\ pc' = "c_send"
    /\ UNCHANGED <<variant, provider, config, clock, returned, call_args, fn, closed, tool_to_session, all_tools, sessions, si, origin, other, rid, chat, response, results, rounds, execs,
                   lastTool, commands, final_text, status, mi, current_model,
                   function_calls, ci, turn, messages, events, instFail, last_error>>

CliUserTurn == CliUserTurnBody /\ UNCHANGED turn_excluded

\* the same step, with the history of the turn started afresh
TurnUserTurn == CliUserTurnBody /\ turn_excluded' = {}

\* the failure handler without the append of line 197
ExcludeNothing(excl, m) == excl

\* line 197: excluded.append(current_model)
Exclude(excl, m) == excl \cup {m}

\* one iteration of the `while True` of safe_send_message; fail are the
\* models whose chats.create raises during the create_chat_session of line 209
CliSafeSendBody ==
    /\ variant = "cli"
    /\ pc = "c_send"
    /\ rounds < MaxRounds
    /\ tried' = Append(tried, current_model)
    /\ \/ \E r \in CliResponses :
            /\ response' = r
            /\ pc' = "c_loop"
            /\ IF ctx = "tool"
               THEN rounds' = rounds + 1 /\ results' = <<>> /\ lastTool' = "none" /\ execs' = 0
               ELSE UNCHANGED <<rounds, results, lastTool, execs>>
            /\ chat' = Answered(chat, MsgNo(ctx, rounds))
            /\ UNCHANGED <<excluded, current_model, err, exc>>
       \/ \* chat.send_message raises the exception e of current_model
          /\ excluded' = Exclude(excluded, current_model)
          /\ \E fail \in SUBSET Models :
               LET new == create_chat_session(excluded', fail) IN
               IF new # ""
               THEN /\ current_model' = new
                    /\ chat' = NewSession(chat, CurrentHistory(chat))
                    /\ pc' = "c_send"
                    /\ UNCHANGED <<err, exc>>
               ELSE \* `raise e`: line 233 ends the turn, line 275 only prints
                    /\ pc' = IF ctx = "user" THEN "c_done" ELSE "c_loop"
                    /\ err' = "model_error"
                    /\ exc' = current_model
                    /\ UNCHANGED <<current_model, chat>>
          /\ UNCHANGED <<response, rounds, results, lastTool, execs>>
    /\ UNCHANGED <<variant, provider, config, clock, returned, call_args, fn, closed, tool_to_session, all_tools, sessions, si, origin, other, rid, outmsg, commands, final_text, status, mi,
                   ctx, function_calls, ci, turn, messages, events, instFail,
                   last_error>>

CliSafeSend == CliSafeSendBody /\ UNCHANGED turn_excluded

\* the same step, recording in the history of the turn the model that line
\* 197 excluded
TurnSafeSend == CliSafeSendBody /\ turn_excluded' = turn_excluded \cup excluded'

\* top of the inner `while True`: scan for the first function call, call the
\* tool and start sending its result
CliInspect ==
    /\ variant = "cli"
    /\ pc = "c_loop"
    /\ LET i == FirstCall(response.parts) IN
       IF NoParts(response) \/ i = 0
       THEN /\ pc' = "c_extract"
            /\ UNCHANGED <<outmsg, results, execs, lastTool, excluded, tried, ctx, err, exc>>
       ELSE /\ execs < MaxExecs
            /\ execs' = execs + 1
            /\ \/ LET m == FunctionResponseMsg(i, response.parts[i].body, "result", "tool_output") IN
                  /\ lastTool' = "ok"
                  /\ outmsg' = m
                  /\ results' = Append(results, m)
                  /\ excluded' = {}
                  /\ tried' = <<>>
                  /\ ctx' = "tool"
                  /\ err' = "none"
                  /\ exc' = ""
                  /\ pc' = "c_send"
               \/ \* call_tool raises: printed, `break`, the while loop runs again
                  /\ lastTool' = "raised"
                  /\ pc' = "c_loop"
                  /\ UNCHANGED <<outmsg, results, excluded, tried, ctx, err, exc>>
    /\ UNCHANGED <<variant, provider, turn_excluded, config, clock, returned, call_args, fn, closed, tool_to_session, all_tools, sessions, si, origin, other, rid, chat, response, rounds, commands,
                   final_text, status, mi, current_model, function_calls,
                   ci, turn, messages, events, instFail, last_error>>

\* lines 284-291
CliExtract ==
    /\ variant = "cli"
    /\ pc = "c_extract"
    /\ final_text' = IF NoParts(response) THEN <<>> ELSE ExtractText(response.parts)
    /\ pc' = "c_done"
    /\ UNCHANGED <<variant, provider, turn_excluded, config, clock, returned, call_args, fn, closed, tool_to_session, all_tools, sessions, si, origin, other, rid, chat, exc, response, outmsg, results, rounds,
                   execs, lastTool, commands, status, err, mi, current_model,
                   excluded, tried, ctx, function_calls, ci, turn, messages,
                   events, instFail, last_error>>

-----------------------------------------------------------------------------
(* be: chat_process of src/mcp_server/_mcp_be.py                           *)

BeCallNames == {"count_objects"}

BeParts == [kind : {"text"}, body : {"plain"}] \cup [kind : {"fc"}, body : BeCallNames]

\* a streamed chunk is the part list of candidates[0].content (empty: no
\* candidates or no parts); the chunks received so far are kept in response
Chunks == SeqsUpTo(BeParts, MaxParts)

\* position of part p of chunk c among the parts of the stream
CallKey(c, p) == (c - 1) * MaxParts + p

Event(t, k) == [type |-> t, key |-> k]

\* lines 211-224: of chunk number c only parts[0] is looked at
ChunkCalls(chunk, c) ==
    IF chunk # <<>> /\ chunk[1].kind = "fc"
    THEN <<[key |-> CallKey(c, 1), name |-> chunk[1].body]>>
    ELSE <<>>

ChunkEvents(chunk, c) ==
    IF chunk = <<>> THEN <<>>
    ELSE IF chunk[1].kind = "text" THEN <<Event("text_chunk", CallKey(c, 1))>>
    ELSE <<Event("tool_call", CallKey(c, 1))>>

\* api_key / base_url of the request, the key found in the environment
\* (GEMINI_API_KEY, OPENAI_API_KEY, GROQ_API_KEY: the one of the provider),
\* and whether the provider's module could be imported (lines 22-32)
Configs ==
    [api_key : {"", "k"}, env_key : {"", "k"}, base_url : {"", "b"}, installed : BOOLEAN]

\* the configuration once the client is built (api_key and base_url are not
\* read again), and that of the entry points without client initialisation
NoConfig == [api_key |-> "", env_key |-> "", base_url |-> "", installed |-> TRUE]

\* a client initialisation that accepts any configuration of a known provider
ClientInitAny(p, c) ==
    IF p \in {"gemini", "openai", "groq"} THEN "ok" ELSE "unknown_provider"

\* lines 104-142: "ok" when a client is built, otherwise the error reported
ClientInit(p, c) ==
    LET key == IF c.api_key # "" THEN c.api_key ELSE c.env_key IN
    CASE p = "gemini" -> IF key = "" THEN "key_not_set" ELSE "ok"
      [] p = "openai" ->
            IF ~c.installed THEN "module_not_installed"
            ELSE IF (IF c.base_url # "" /\ key = "" THEN "dummy" ELSE key) = ""
                 THEN "key_not_set"
                 ELSE "ok"
      [] p = "groq" ->
            IF ~c.installed THEN "module_not_installed"
            ELSE IF key = "" THEN "key_not_set" ELSE "ok"
      [] OTHER -> "unknown_provider"

\* lines 101-142: the first status event, then the client of the provider
\* is built or one error event is yielded and the generator returns
BeInit ==
    /\ variant = "be"
    /\ pc = "b_init"
    /\ IF ClientInit(provider, config) = "ok"
       THEN /\ events' = <<Event("status", 0)>>
            /\ pc' = "b_connect"
            /\ UNCHANGED err
       ELSE /\ events' = <<Event("status", 0), Event("error", 0)>>
            /\ pc' = "b_done"
            /\ err' = "config_error"
    /\ config' = NoConfig
    /\ UNCHANGED <<variant, provider, turn_excluded, clock, returned, call_args, fn, closed, tool_to_session, all_tools, sessions, si, origin, other, rid, chat, exc,
                   response, outmsg, results, rounds, execs, lastTool, commands,
                   final_text, status, mi, current_model, excluded, tried,
                   ctx, function_calls, ci, turn, messages, instFail, last_error>>

\* one tool of each server of mcp_urls: the two shapes servers of the
\* repository (src/mcp_server/MCP_server.py and src/MCP_server.py, which both
\* define count_objects) and the utility server
SERVER_TOOLS == <<"count_objects", "count_objects", "get_current_time">>

ServerTools(u) == <<SERVER_TOOLS[u]>>

\* tool_to_session = {}
NoTools == [n \in {} |-> 0]

\* lines 170-171: for t in current_tools: tool_to_session[t.name] = session
Registered(reg, u) ==
    LET names == {ServerTools(u)[i] : i \in 1..Len(ServerTools(u))} IN
    [n \in DOMAIN reg \cup names |-> IF n \in names THEN u ELSE reg[n]]

\* lines 169-172: the tools listed by server u, as appended to all_tools
Listed(u) == [i \in 1..Len(ServerTools(u)) |-> [name |-> ServerTools(u)[i], server |-> u]]

\* lines 182-190, 277-289, 366-378: the declarations handed to the model
Offered(tools) == [i \in 1..Len(tools) |-> tools[i].name]

\* the url loop left at the first failure
AfterFailureStop(i) == NumServers + 1

\* lines 174-177: the handler of the url loop yields the error and lets the
\* loop go on with the next url
AfterFailure(i) == i + 1

\* what connecting one url (not blank) may come to: a raise of sse_client /
\* ClientSession, of session.initialize, of session.list_tools, or the
\* listing of the server's tools
ConnectFailures == {"connect_failed", "initialize_failed", "list_failed"}

ConnectOutcomes == ConnectFailures \cup {"ok"}

\* lines 155-166 and 174-176: the events of one iteration of the url loop
ConnectEvents(u, o) ==
    CASE o = "connect_failed" -> <<Event("status", u), Event("error", u)>>
      [] o \in {"initialize_failed", "list_failed"} ->
            <<Event("status", u), Event("status", u), Event("error", u)>>
      [] o = "ok" -> <<Event("status", u), Event("status", u), Event("status", u)>>

\* lines 152-177: one iteration of `for url in mcp_urls`
BeConnect ==
    /\ variant = "be"
    /\ pc = "b_connect"
    /\ si <= NumServers
    /\ \E o \in ConnectOutcomes :
         /\ events' = events \o ConnectEvents(si, o)
         /\ sessions' = IF o = "ok" THEN Append(sessions, si) ELSE sessions
         /\ all_tools' = IF o = "ok" THEN all_tools \o Listed(si) ELSE all_tools
         /\ tool_to_session' = IF o = "ok" THEN Registered(tool_to_session, si)
                               ELSE tool_to_session
         /\ si' = IF o \in ConnectFailures THEN AfterFailure(si) ELSE si + 1
    /\ pc' = IF si' > NumServers THEN "b_request" ELSE "b_connect"
    /\ UNCHANGED <<variant, provider, turn_excluded, config, clock, returned, call_args, fn, closed, origin, other, rid, chat, exc,
                   response, outmsg, results, rounds, execs, lastTool, commands,
                   final_text, status, err, mi, current_model, excluded, tried,
                   ctx, function_calls, ci, turn, messages, instFail, last_error>>

\* lines 147 and 450-452: after `done` the `async with AsyncExitStack()`
\* block is left and the sessions entered on the stack are closed; a close
\* that raises is caught by the handler of line 452
BeExit ==
    /\ variant = "be"
    /\ pc = "b_done"
    /\ err = "none"
    /\ ~closed
    /\ closed' = TRUE
    /\ \/ UNCHANGED <<events, err>>
       \/ /\ sessions # <<>>
          /\ events' = Append(events, Event("error", 0))
          /\ err' = "close_error"
    /\ UNCHANGED <<variant, provider, turn_excluded, config, clock, returned, call_args, fn, tool_to_session, all_tools, sessions,
                   si, origin, other, rid, chat, exc, pc, response, outmsg, results,
                   rounds, execs, lastTool, commands, final_text, status, mi,
                   current_model, excluded, tried, ctx, function_calls, ci, turn,
                   messages, instFail, last_error>>

\* lines 232-233, 324-325, 414-415: session = tool_to_session.get(name);
\* without a session ValueError is raised, with one call_tool returns or
\* raises
CallOutcomes(name) == IF name \in DOMAIN tool_to_session THEN BOOLEAN ELSE {FALSE}

\* the handler of line 452: one Backend Error event, and the generator ends
BeFail(e) ==
    /\ pc' = "b_done"
    /\ err' = e
    /\ events' = <<Event("error", 0)>>

\* lines 205-208: chat.send_message_stream(current_message)
BeGeminiRequest ==
    /\ variant = "be"
    /\ provider = "gemini"
    /\ pc = "b_request"
    /\ rounds < MaxBeRounds
    /\ \/ /\ response' = <<>>
          /\ function_calls' = <<>>
          /\ results' = <<>>
          /\ events' = <<>>
          /\ lastTool' = "none"
          /\ rounds' = IF outmsg.kind = "function_response" THEN rounds + 1 ELSE rounds
          /\ execs' = 0
          /\ ci' = 1
          /\ pc' = "b_stream"
          /\ UNCHANGED err
       \/ /\ BeFail("model_error")
          /\ UNCHANGED <<response, function_calls, results, lastTool, rounds, ci, execs>>
    /\ UNCHANGED <<variant, provider, turn_excluded, config, clock, returned, call_args, fn, closed, tool_to_session, all_tools, sessions, si, origin, other, rid, chat, exc, outmsg, commands, final_text, status,
                   mi, current_model, excluded, tried, ctx, turn, messages,
                   instFail, last_error>>

\* lines 210-224: one iteration of `for chunk in response_stream`
BeGeminiChunk ==
    /\ variant = "be"
    /\ provider = "gemini"
    /\ pc = "b_stream"
    /\ Len(response) < MaxChunks
    /\ \E chunk \in Chunks :
         /\ response' = Append(response, chunk)
         /\ function_calls' = function_calls \o ChunkCalls(chunk, Len(response'))
         /\ events' = events \o ChunkEvents(chunk, Len(response'))
    /\ UNCHANGED <<variant, provider, turn_excluded, config, clock, returned, call_args, fn, closed, tool_to_session, all_tools, sessions, si, origin, other, rid, chat, exc, pc, outmsg, results, rounds, execs, lastTool,
                   commands, final_text, status, err, mi, current_model, excluded,
                   tried, ctx, ci, turn, messages, instFail, last_error>>

\* lines 226-227 and 450: the stream is over; without collected calls the
\* loop ends and done is yielded
BeGeminiStreamEnd ==
    /\ variant = "be"
    /\ provider = "gemini"
    /\ pc = "b_stream"
    /\ IF function_calls = <<>>
       THEN /\ events' = Append(events, Event("done", 0))
            /\ pc' = "b_done"
       ELSE /\ pc' = "b_dispatch"
            /\ UNCHANGED events
    /\ UNCHANGED <<variant, provider, turn_excluded, config, clock, returned, call_args, fn, closed, tool_to_session, all_tools, sessions, si, origin, other, rid, chat, exc, response, outmsg, results, rounds, execs,
                   lastTool, commands, final_text, status, err, mi, current_model,
                   excluded, tried, ctx, function_calls, ci, turn, messages,
                   instFail, last_error>>

\* the loop over the calls left after the first call
LoopOverAfterOne(i, calls) == i > 1

\* lines 229, 310, 400: `for fc in function_calls` / `for tool_call in
\* response_message.tool_calls` is over when every call has had its iteration
LoopOver(i, calls) == i > Len(calls)

\* lines 229-262: one iteration of `for fc in function_calls`
BeGeminiDispatch ==
    /\ variant = "be"
    /\ provider = "gemini"
    /\ pc = "b_dispatch"
    /\ LET fc == function_calls[ci] IN
       /\ execs' = execs + 1
       /\ \E ok \in CallOutcomes(fc.name) :
            LET m == IF ok THEN FunctionResponseMsg(fc.key, fc.name, "result", "tool_output")
                           ELSE FunctionResponseMsg(fc.key, fc.name, "error", "tool_error")
            IN  /\ lastTool' = IF ok THEN "ok" ELSE "raised"
                /\ outmsg' = m
                /\ results' = Append(results, m)
                /\ events' = events \o <<Event("status", fc.key),
                                         Event(IF ok THEN "tool_result" ELSE "error", fc.key)>>
    /\ ci' = ci + 1
    /\ pc' = IF LoopOver(ci', function_calls) THEN "b_request" ELSE "b_dispatch"
    /\ UNCHANGED <<variant, provider, turn_excluded, config, clock, returned, call_args, fn, closed, tool_to_session, all_tools, sessions, si, origin, other, rid, chat, exc, response, rounds, commands,
                   final_text, status, err, mi, current_model, excluded, tried,
                   ctx, function_calls, turn, messages, instFail, last_error>>

\* tool_call.function.arguments, a string the model wrote: a JSON object,
\* or a text cut short that json.loads rejects
ArgStrings == {"{\"class\": \"pipe\"}", "{\"class\": "}

JsonValid(s) == s = "{\"class\": \"pipe\"}"

\* json.loads of a string that is valid JSON
json_loads(s) == [class |-> "pipe"]

\* the handler that keeps the text it could not parse
ToolArgsRaw(s) == IF JsonValid(s) THEN json_loads(s) ELSE [raw |-> s]

\* lines 315-318 (groq), 405-408 (openai): tool_args = json.loads(...), and
\* {} on json.JSONDecodeError
ToolArgs(s) == IF JsonValid(s) THEN json_loads(s) ELSE NoArgs

\* a tool call of a chat.completions message: function.name and
\* function.arguments
ChatCalls == [name : BeCallNames, arguments : ArgStrings]

\* the tool_call event of lines 320 and 410, with the args it reports
ToolCallEvent(k, a) == [type |-> "tool_call", key |-> k, args |-> a]

\* a chat.completions response: finish_reason, message.tool_calls,
\* message.content
ChatResponses ==
    {[finish |-> "tool_calls", calls |-> c, content |-> ""] :
        c \in SeqsUpTo(ChatCalls, MaxCalls) \ {<<>>}}
    \cup {[finish |-> "stop", calls |-> <<>>, content |-> t] : t \in {"", "answer"}}

NoChatResponse == [finish |-> "stop", calls |-> <<>>, content |-> ""]

\* tool_call.id of call i of the response to request t
CallId(t, i) == (t - 1) * MaxCalls + i

Message(r, ids, c) == [role |-> r, ids |-> ids, content |-> c]

InitialMessages == <<Message("system", <<>>, "instructions"), Message("user", <<>>, "query")>>

\* the loop bound off by one
TurnsLeftOffByOne(t) == t <= max_turns

\* `for _ in range(max_turns)`: another iteration is left after t of them
TurnsLeft(t) == t < max_turns

\* lines 293-308 and 352-356 (groq), 382-398 and 444-448 (openai)
BeChatRequest ==
    /\ variant = "be"
    /\ provider \in {"groq", "openai"}
    /\ pc = "b_request"
    /\ TurnsLeft(turn)
    /\ turn' = turn + 1
    /\ \/ \E r \in ChatResponses :
            /\ response' = r
            /\ results' = <<>>
            /\ lastTool' = "none"
            /\ rounds' = IF turn > 0 THEN rounds + 1 ELSE rounds
            /\ execs' = 0
            /\ ci' = 1
            /\ IF r.finish = "tool_calls"
               THEN /\ function_calls' =
                         [i \in 1..Len(r.calls) |->
                             [key |-> CallId(turn', i), name |-> r.calls[i].name,
                              arguments |-> r.calls[i].arguments]]
                    /\ messages' = Append(messages,
                         Message("assistant", [i \in 1..Len(r.calls) |-> CallId(turn', i)], ""))
                    /\ events' = <<Event("status", 0)>>
                    /\ pc' = "b_dispatch"
               ELSE /\ function_calls' = <<>>
                    /\ events' = <<Event("status", 0)>>
                                 \o (IF r.content # "" THEN <<Event("text_chunk", 0)>> ELSE <<>>)
                                 \o <<Event("done", 0)>>
                    /\ pc' = "b_done"
                    /\ UNCHANGED messages
            /\ UNCHANGED err
       \/ /\ BeFail("model_error")
          /\ UNCHANGED <<response, function_calls, results, lastTool, rounds, ci,
                         messages, execs>>
    /\ UNCHANGED <<variant, provider, turn_excluded, config, clock, returned, call_args, fn, closed, tool_to_session, all_tools, sessions, si, origin, other, rid, chat, exc, outmsg, commands, final_text, status,
                   mi, current_model, excluded, tried, ctx, instFail, last_error>>

\* the failure handler without its messages.append
AnswerCallOnSuccess(msgs, id, ok) ==
    IF ok THEN Append(msgs, Message("tool", <<id>>, "text")) ELSE msgs

\* lines 337-341 and 346-350 (groq), 428-432 and 437-441 (openai): the
\* role=tool message of the call, appended when the call succeeded and when
\* it raised
AnswerCall(msgs, id, ok) == Append(msgs, Message("tool", <<id>>, "text"))

\* lines 310-350 (groq), 400-441 (openai): one iteration of
\* `for tool_call in response_message.tool_calls`; after the last call of the
\* last turn the loop is over and `done` is yielded (line 450)
BeChatDispatch ==
    /\ variant = "be"
    /\ provider \in {"groq", "openai"}
    /\ pc = "b_dispatch"
    /\ ci' = ci + 1
    /\ execs' = execs + 1
    /\ LET fc == function_calls[ci]
           tool_args == ToolArgs(fc.arguments)
           last == LoopOver(ci', function_calls)
           tail == IF last /\ ~TurnsLeft(turn) THEN <<Event("done", 0)>> ELSE <<>>
       IN  /\ \E ok \in CallOutcomes(fc.name) :
                LET body == IF ok THEN "tool_output" ELSE "tool_error" IN
                /\ lastTool' = IF ok THEN "ok" ELSE "raised"
                /\ results' = Append(results,
                       FunctionResponseMsg(fc.key, fc.name, "content", body))
                \* content is a text either way: the tool output or str(e)
                /\ messages' = AnswerCall(messages, fc.key, ok)
                \* line 326: session.call_tool(tool_name, arguments=tool_args),
                \* reached when the tool has a session
                /\ IF fc.name \in DOMAIN tool_to_session
                   THEN call_args' = [name |-> fc.name, arguments |-> tool_args]
                   ELSE UNCHANGED call_args
                /\ events' = events
                             \o <<ToolCallEvent(fc.key, tool_args), Event("status", fc.key),
                                  Event(IF ok THEN "tool_result" ELSE "error", fc.key)>>
                             \o tail
           /\ pc' = IF ~last THEN "b_dispatch"
                    ELSE IF TurnsLeft(turn) THEN "b_request" ELSE "b_done"
    /\ UNCHANGED <<variant, provider, turn_excluded, config, clock, returned, fn, closed, tool_to_session, all_tools, sessions, si, origin, other, rid, chat, exc, response, outmsg, rounds, commands,
                   final_text, status, err, mi, current_model, excluded, tried,
                   ctx, function_calls, turn, instFail, last_error>>

-----------------------------------------------------------------------------
(* The interaction *)

Idle ==
    /\ outmsg = NoMsg
    /\ results = <<>>
    /\ rounds = 0
    /\ execs = 0
    /\ lastTool = "none"
    /\ commands = <<>>
    /\ final_text = <<>>
    /\ status = 0
    /\ err = "none"
    /\ mi = 1
    /\ excluded = {}
    /\ tried = <<>>
    /\ ctx = "user"
    /\ function_calls = <<>>
    /\ ci = 1
    /\ turn = 0
    /\ events = <<>>
    /\ instFail = {}
    /\ last_error = "none"
    /\ exc = ""
    /\ chat = InitialChat
    /\ rid = 1
    /\ origin = <<>>
    /\ si = 1
    /\ sessions = <<>>
    /\ all_tools = <<>>
    /\ tool_to_session = NoTools
    /\ closed = FALSE
    /\ clock = 0
    /\ turn_excluded = {}

\* no function is called on its own
NoCall ==
    /\ fn = ""
    /\ call_args = <<>>
    /\ returned = <<>>

\* agent: a /chat request arrives; cli: a chat session exists (line 180, or
\* left by an earlier turn) and the user is prompted; be: the provider path
\* is entered with the user message as current_message / messages
Init ==
    /\ Idle
    /\ other = NoFrame
    /\ NoCall
    /\ \/ /\ variant = "agent" /\ provider = "gemini" /\ pc = "a_models"
          /\ current_model = "" /\ messages = <<>>
          /\ response = NoResponse
          /\ config = NoConfig
       \/ /\ variant = "cli" /\ provider = "gemini" /\ pc = "c_input"
          /\ current_model \in Models /\ messages = <<>>
          /\ response = NoResponse
          /\ config = NoConfig
       \/ /\ variant = "be" /\ provider = "gemini" /\ pc = "b_init"
          /\ current_model = "" /\ messages = <<>>
          /\ response = <<>>
          /\ config \in Configs
       \/ /\ variant = "be" /\ provider \in {"groq", "openai", "other"} /\ pc = "b_init"
          /\ current_model = "" /\ messages = InitialMessages
          /\ response = NoChatResponse
          /\ config \in Configs

Next ==
    \/ AgentTryModel
    \/ AgentInspect
    \/ AgentSend
    \/ AgentExtract
    \/ CliUserTurn
    \/ CliSafeSend
    \/ CliInspect
    \/ CliExtract
    \/ BeInit
    \/ BeConnect
    \/ BeGeminiRequest
    \/ BeGeminiChunk
    \/ BeGeminiStreamEnd
    \/ BeGeminiDispatch
    \/ BeChatRequest
    \/ BeChatDispatch
    \/ BeExit

Spec == Init /\ [][Next]_vars

-----------------------------------------------------------------------------
(* Two /chat requests served at once by the agent's event loop             *)

InitTwo ==
    /\ Idle
    /\ config = NoConfig
    /\ NoCall
    /\ variant = "agent" /\ provider = "gemini" /\ pc = "a_models"
    /\ current_model = "" /\ messages = <<>>
    /\ response = NoResponse
    /\ other = FreshFrame(2)

NextTwo ==
    \/ AgentTryModel
    \/ AgentInspect
    \/ AgentSend
    \/ AgentExtract
    \/ AgentSwitch

SpecTwo == InitTwo /\ [][NextTwo]_vars

-----------------------------------------------------------------------------
(* create_chat_session on its own: any exclusion list, any set of models   *)
(* whose instantiation raises                                              *)

InitCreate ==
    /\ response = NoResponse /\ outmsg = NoMsg /\ results = <<>> /\ rounds = 0
    /\ execs = 0 /\ lastTool = "none" /\ commands = <<>> /\ final_text = <<>>
    /\ status = 0 /\ err = "none" /\ mi = 1 /\ tried = <<>> /\ ctx = "user"
    /\ function_calls = <<>> /\ ci = 1 /\ turn = 0 /\ events = <<>>
    /\ last_error = "none" /\ messages = <<>>
    /\ variant = "create" /\ provider = "gemini" /\ pc = "k_call"
    /\ current_model = ""
    /\ excluded \in SUBSET Models
    /\ instFail \in SUBSET Models
    /\ exc = ""
    /\ chat = InitialChat
    /\ rid = 1
    /\ other = NoFrame
    /\ origin = <<>>
    /\ si = 1
    /\ sessions = <<>>
    /\ all_tools = <<>>
    /\ tool_to_session = NoTools
    /\ closed = FALSE
    /\ fn = ""
    /\ call_args = <<>>
    /\ returned = <<>>
    /\ clock = 0
    /\ config = NoConfig
    /\ turn_excluded = {}

CreateCall ==
    /\ variant = "create"
    /\ pc = "k_call"
    /\ current_model' = create_chat_session(excluded, instFail)
    /\ pc' = "k_return"
    /\ UNCHANGED <<variant, provider, turn_excluded, config, clock, returned, call_args, fn, closed, tool_to_session, all_tools, sessions, si, origin, other, rid, chat, exc, response, outmsg, results, rounds, execs,
                   lastTool, commands, final_text, status, err, mi, excluded,
                   tried, ctx, function_calls, ci, turn, messages, events,
                   instFail, last_error>>

NextCreate == CreateCall

SpecCreate == InitCreate /\ [][NextCreate]_vars

-----------------------------------------------------------------------------
(* Vocabulary of the claims *)

\* the function calls present in the response under inspection, each named
\* by its position
PendingCalls ==
    IF variant \in {"agent", "cli"}
    THEN {i \in 1..Len(response.parts) : response.parts[i].kind = "fc"}
    ELSE IF provider = "gemini"
    THEN {CallKey(c, p) : <<c, p>> \in
            {cp \in (1..MaxChunks) \X (1..MaxParts) :
                /\ cp[1] <= Len(response)
                /\ cp[2] <= Len(response[cp[1]])
                /\ response[cp[1]][cp[2]].kind = "fc"}}
    ELSE {CallId(turn, i) : i \in 1..Len(response.calls)}

ResultsFor(k) == {j \in 1..Len(results) : results[j].idx = k}

\* a step that issues a model request
RequestStep ==
    \/ variant = "agent" /\ pc \in {"a_send_ack", "a_send_result", "a_send_error"} /\ pc' # pc
    \/ variant = "cli" /\ pc = "c_send" /\ tried' # tried
    \/ variant = "be" /\ pc = "b_request" /\ pc' # pc

\* a step in which call_tool raised
ToolRaisedStep == execs' = execs + 1 /\ lastTool' = "raised"

\* the message of the next request holds the result of call k
Carries(k) ==
    IF provider = "gemini"
    THEN outmsg.kind = "function_response" /\ outmsg.idx = k
    ELSE \E j \in 1..Len(messages) : messages[j].role = "tool" /\ messages[j].ids = <<k>>

\* the agent has left its loop on the response to the user message, and that
\* response holds no function call
ZeroCallTurn ==
    /\ variant = "agent"
    /\ rounds = 0
    /\ mi <= Len(MODEL_PRIORITY)
    /\ pc \in {"a_extract", "a_done"}
    /\ \A i \in 1..Len(response.parts) : response.parts[i].kind # "fc"

\* positions of MODEL_PRIORITY whose model is neither excluded nor failing to
\* instantiate
Viable ==
    {i \in 1..Len(MODEL_PRIORITY) :
        MODEL_PRIORITY[i] \notin excluded /\ MODEL_PRIORITY[i] \notin instFail}

Range(seq) == {seq[i] : i \in 1..Len(seq)}

-----------------------------------------------------------------------------
(* C1. Whenever a model request is issued, every function call present in  *)
(* the response under inspection has been resolved to exactly one tool     *)
(* result: no call of the response is skipped, whatever its position.      *)
C1_EveryCallResolved ==
    [][RequestStep => \A k \in PendingCalls : Cardinality(ResultsFor(k)) = 1]_vars

(* C2. In the streaming backend, the message of the request that follows a *)
(* tool round carries the result of every call dispatched in that round,   *)
(* not only the result of the last one.                                    *)
C2_NextMessageCarriesAllResults ==
    [][(variant = "be" /\ RequestStep)
         => \A i \in 1..Len(function_calls) : Carries(function_calls[i].key)]_vars

(* C3. In the Gemini loops (agent, cli, backend), when a dispatched tool   *)
(* call raises, exactly one failed tool result with the error text in an   *)
(* error field is constructed for that call and is the message queued for  *)
(* the model, and the interaction goes on to a model request.              *)
C3_ToolErrorFedBack ==
    [][(provider = "gemini" /\ ToolRaisedStep)
         => /\ outmsg'.kind = "function_response"
            /\ outmsg'.field = "error"
            /\ Len(results') = Len(results) + 1
            /\ results'[Len(results')] = outmsg'
            /\ pc' \in {"a_send_error", "c_send", "b_dispatch", "b_request"}]_vars

(* C4. In every variant the number of model-to-tool round trips of one     *)
(* interaction stays within the explicit fixed maximum (max_turns).        *)
C4_RoundTripsBounded == rounds <= max_turns

(* C5. In the groq and openai paths at most max_turns (5) model requests   *)
(* are made; when the response to the 5th request still asks for tools,    *)
(* its calls are dispatched, no further request is issued and the run ends *)
(* normally with the done event.                                           *)
C5_ChatLoopStopsAtBound ==
    (variant = "be" /\ provider \in {"groq", "openai"}) =>
        /\ turn <= max_turns
        /\ (turn = max_turns /\ err = "none" /\ response.finish = "tool_calls"
              /\ ci > Len(function_calls))
             => /\ pc = "b_done"
                /\ events # <<>>
                /\ events[Len(events)].type = "done"
                /\ \A k \in PendingCalls : Cardinality(ResultsFor(k)) = 1

C5_Witness ==
    /\ variant = "be" /\ provider = "groq"
    /\ turn = max_turns /\ err = "none" /\ pc = "b_done"
    /\ response.finish = "tool_calls"

(* C6. When the groq/openai loop ends because the round-trip bound was     *)
(* reached while the model was still asking for tools, the event that      *)
(* closes the stream differs from the plain done event that closes a turn  *)
(* completed with a final answer.                                          *)
C6_BoundReachedIsIndicated ==
    (variant = "be" /\ provider \in {"groq", "openai"} /\ pc = "b_done"
       /\ err = "none" /\ response.finish = "tool_calls")
      => events[Len(events)] # Event("done", 0)

(* C7 (as claimed). In the agent, when the response to the user message    *)
(* has no function call, no tool is invoked, no further model request is   *)
(* sent, and the command queue at the end of the interaction is empty.     *)
C7_ZeroCallsEmptyQueue ==
    ZeroCallTurn => (execs = 0 /\ outmsg = UserMsg /\ commands = <<>>)

(* C7 (amended). In the agent, when the response to the user message has   *)
(* no function call, no tool is invoked, no further model request is sent  *)
(* and the command queue is empty when the loop ends; a command is in the  *)
(* returned list only if the final text embeds a JSON command, from which  *)
(* the legacy parsing recovered it.                                        *)
C7_ZeroCallsOnlyScrapedCommands ==
    ZeroCallTurn =>
        /\ execs = 0
        /\ outmsg = UserMsg
        /\ commands # <<>> =>
             /\ pc = "a_done" /\ status = 200
             /\ \E i \in 1..Len(final_text) : final_text[i] \in {"fenced_cmd", "raw_cmd"}

C7_Witness ==
    /\ ZeroCallTurn
    /\ pc = "a_done" /\ status = 200
    /\ final_text # <<>>
    /\ commands = <<>>

(* C8. A model send failure ends the interaction only when every candidate *)
(* model is exhausted: a request of the agent ends with the error of a     *)
(* failed send only after the whole priority list has been gone through.   *)
C8_SendFailureOnlyFatalWhenExhausted ==
    (variant = "agent" /\ pc = "a_done" /\ err = "model_error")
        => mi >= Len(MODEL_PRIORITY)

(* C9. create_chat_session(excluded, history) returns the first model of   *)
(* MODEL_PRIORITY, in list order, that is neither excluded nor failing to  *)
(* instantiate, and no session exactly when there is no such model.        *)
C9_FirstViableModel ==
    (variant = "create" /\ pc = "k_return") =>
        IF Viable = {} THEN current_model = ""
        ELSE \E i \in Viable :
                /\ current_model = MODEL_PRIORITY[i]
                /\ \A j \in Viable : i <= j

C9_Witness ==
    /\ variant = "create" /\ pc = "k_return"
    /\ excluded = {MODEL_PRIORITY[2]}
    /\ instFail = {MODEL_PRIORITY[1]}
    /\ current_model = MODEL_PRIORITY[3]

(* C10. Within one safe_send_message no model receives the message twice:  *)
(* the models sent to are pairwise distinct, they are at most              *)
(* |MODEL_PRIORITY|, every model that failed is excluded, the session is   *)
(* never bound to an excluded model, and the call ends with a response     *)
(* from a model that did not fail or with the re-raised error.             *)
C10_NoModelTriedTwice ==
    /\ [](variant = "cli" =>
            /\ \A i, j \in 1..Len(tried) : i # j => tried[i] # tried[j]
            /\ Len(tried) <= Len(MODEL_PRIORITY)
            /\ excluded \subseteq Range(tried)
            /\ pc = "c_send" => (current_model \notin excluded /\ Range(tried) = excluded))
    /\ [][(variant = "cli" /\ pc = "c_send" /\ pc' # "c_send")
            => \/ err' = "model_error" /\ Range(tried') = excluded'
               \/ /\ err' = "none" /\ pc' = "c_loop"
                  /\ tried'[Len(tried')] \notin excluded']_vars

C10_Witness ==
    /\ variant = "cli"
    /\ Len(tried) = Len(MODEL_PRIORITY)
    /\ err = "model_error"
    /\ ctx = "tool"

(* C11. In the cli, when safe_send_message gives up after two or more      *)
(* failed sends, the exception it raises is the one of the first failed    *)
(* send of that message.                                                   *)
C11_OriginalErrorSurfaced ==
    (variant = "cli" /\ err = "model_error" /\ Len(tried) >= 2) => exc = tried[1]

\* a step of safe_send_message's failure handler that switched the session
FallbackStep == variant = "cli" /\ pc = "c_send" /\ current_model' # current_model

(* C12. When the cli falls back to another model, the session is a new     *)
(* object, its history is the history of the failed session (the messages  *)
(* answered so far, each once, in order), no session object is ever bound  *)
(* to another model, and the new session has not yet received the failed   *)
(* message, which is the next thing sent to it and is sent to it once.     *)
C12_FallbackKeepsHistory ==
    /\ [](variant = "cli" =>
            /\ \A i \in 1..Len(chat.history) : chat.history[i] = i - 1
            /\ pc = "c_send" =>
                  /\ Len(chat.history) = MsgNo(ctx, rounds)
                  /\ current_model \notin Range(tried))
    /\ [][variant = "cli" =>
            /\ (chat'.id # chat.id => FallbackStep)
            /\ FallbackStep =>
                  /\ chat'.id # chat.id
                  /\ chat'.history = chat.history
                  /\ outmsg' = outmsg
                  /\ pc' = "c_send"
                  /\ tried' = Append(tried, current_model)]_vars

C12_Witness ==
    /\ variant = "cli" /\ pc = "c_loop" /\ ctx = "tool"
    /\ Len(tried) = 2
    /\ err = "none"
    /\ chat.id = 2
    /\ Len(chat.history) = 3

(* C13. When every model of the priority list fails on the user message    *)
(* (raises, or returns no response), the /chat request of the agent ends   *)
(* with HTTP status 503, and no tool was dispatched and no command queued. *)
C13_AllModelsFailedIs503 ==
    (variant = "agent" /\ pc = "a_done" /\ err = "all_models_failed")
        => (status = 503 /\ execs = 0 /\ results = <<>> /\ commands = <<>>)

\* the agent is about to answer a call of a client UI tool
ClientCallAt(i) ==
    /\ variant = "agent" /\ pc = "a_loop"
    /\ ~NoParts(response)
    /\ i = FirstCall(response.parts)
    /\ i # 0
    /\ response.parts[i].body \in CLIENT_TOOL_NAMES

\* the interception of one client call: nothing invoked on the server, one
\* command of the call's name and arguments appended, the acknowledgment
\* made the next message
ClientCallQueuedAndAcknowledged ==
    \A i \in 1..MaxParts : ClientCallAt(i) =>
        /\ execs' = execs /\ lastTool' = lastTool
        /\ commands' = Append(commands,
              [command |-> response.parts[i].body,
               action |-> response.parts[i].args.action])
        /\ outmsg' = FunctionResponseMsg(i, response.parts[i].body, "result",
                                         "Command sent to client UI.")
        /\ pc' = "a_send_ack"

\* the reply of a turn whose only call was one client call
OneCallOneCommand ==
    (variant = "agent" /\ pc = "a_extract" /\ rounds = 1 /\ Len(commands) = 1
       /\ status' = 200)
      => commands' = commands

(* C14. For a call of a client UI tool the agent invokes no tool on the    *)
(* server, appends exactly one command made of the call's name and         *)
(* arguments to the queue and makes the synthetic success acknowledgment   *)
(* the next message for the model; a turn with exactly one such call ends  *)
(* with exactly that one command in the returned list.                     *)
C14_ClientToolIntercepted ==
    [][ClientCallQueuedAndAcknowledged /\ OneCallOneCommand]_vars

(* C15. The recovery of commands from the final text adds commands only    *)
(* when the tool calls of the turn queued none: when the queue is not      *)
(* empty at the end of the loop, the returned list is exactly the queue,   *)
(* whatever JSON the final text holds.                                     *)
C15_ScrapingOnlyWhenQueueEmpty ==
    [][(variant = "agent" /\ pc = "a_extract" /\ commands # <<>> /\ status' = 200)
        => commands' = commands]_vars

\* the final text of the response under inspection holds a block that looks
\* like a command and does not parse
MalformedIn(parts) == \E i \in 1..Len(parts) : parts[i].kind = "text" /\ parts[i].body = "fenced_bad"

\* the segments of a text that parse as a command
WellFormed(text) == {i \in 1..Len(text) : text[i] \in {"fenced_cmd", "raw_cmd"}}

(* C16. A final text with a block that looks like a command and does not   *)
(* parse as JSON is answered all the same: the reply has status 200 and    *)
(* the whole final text, the commands queued before are kept as they are,  *)
(* and the unparsable block adds no command (without a parsable block next *)
(* to it the returned list is the queue).                                  *)
C16_MalformedJsonSkipped ==
    [][(variant = "agent" /\ pc = "a_extract" /\ response.shape = "parts"
          /\ MalformedIn(response.parts))
        => /\ pc' = "a_done" /\ status' = 200 /\ err' = "none"
           /\ final_text' = ExtractText(response.parts)
           /\ Len(commands') >= Len(commands)
           /\ SubSeq(commands', 1, Len(commands)) = commands
           /\ Len(commands') - Len(commands) <= Cardinality(WellFormed(final_text'))
           /\ \A j \in 1..Len(commands') : commands'[j].command # "unparsed"]_vars

C16_Witness ==
    /\ variant = "agent" /\ pc = "a_done" /\ status = 200
    /\ rounds = 1
    /\ final_text = <<"fenced_bad">>
    /\ Len(commands) = 1

\* seq is an initial part of seq2
IsPrefix(seq, seq2) == Len(seq) <= Len(seq2) /\ SubSeq(seq2, 1, Len(seq)) = seq

(* C17. With two /chat requests interleaved at their awaits, the command   *)
(* list of each request holds only commands that this request appended     *)
(* (each starts with an empty queue, and what it returns is its own        *)
(* queue); while a request runs its queue only grows, and the queue of the *)
(* suspended request is not touched.                                       *)
C17_QueuePerRequest ==
    /\ [](/\ Len(origin) = Len(commands)
          /\ \A j \in 1..Len(origin) : origin[j] = rid
          /\ pc = "a_models" => commands = <<>>
          /\ other # NoFrame =>
                /\ other.rid # rid
                /\ Len(other.origin) = Len(other.commands)
                /\ \A j \in 1..Len(other.origin) : other.origin[j] = other.rid
                /\ other.pc = "a_models" => other.commands = <<>>)
    /\ [][IF rid' = rid
          THEN IsPrefix(commands, commands') /\ other' = other
          ELSE commands' = other.commands /\ other'.commands = commands]_vars

C17_Witness ==
    /\ rid = 2 /\ pc = "a_done" /\ status = 200
    /\ Len(commands) = 1
    /\ other # NoFrame
    /\ other.pc = "a_send_result"
    /\ Len(other.commands) = 1

\* the event generator of the backend has returned
RunEnded == variant = "be" /\ pc = "b_done" /\ (err # "none" \/ closed)

Servers(seq) == {seq[i] : i \in 1..Len(seq)}

\* all_tools as the url loop builds it from the servers in `servers`
RECURSIVE ToolsOf(_)
ToolsOf(servers) ==
    IF servers = <<>> THEN <<>> ELSE Listed(Head(servers)) \o ToolsOf(Tail(servers))

\* a step of the url loop in which the server at hand failed
ConnectFailedStep ==
    /\ variant = "be" /\ pc = "b_connect"
    /\ sessions' = sessions

(* C19. A failure to connect, initialize or list one tool server yields an *)
(* error event for that server, registers none of its tools and lets the   *)
(* url loop go on with the next url; the registry and the tools offered to *)
(* the model are at all times exactly the tools of the servers connected   *)
(* so far, in order, whether they come before or after a failed one.       *)
C19_PartialServerFailure ==
    /\ [](variant = "be" =>
            /\ all_tools = ToolsOf(sessions)
            /\ DOMAIN tool_to_session = {all_tools[i].name : i \in 1..Len(all_tools)}
            /\ \A n \in DOMAIN tool_to_session :
                  \E i \in 1..Len(all_tools) :
                     /\ all_tools[i] = [name |-> n, server |-> tool_to_session[n]]
                     /\ \A j \in (i + 1)..Len(all_tools) : all_tools[j].name # n
            /\ Servers(sessions) \subseteq 1..(si - 1)
            /\ (pc \notin {"b_init", "b_connect"} /\ err # "config_error") =>
                  /\ si = NumServers + 1
                  /\ Offered(all_tools) = Offered(ToolsOf(sessions)))
    /\ [][ConnectFailedStep =>
            /\ events' # <<>> /\ events'[Len(events')] = Event("error", si)
            /\ all_tools' = all_tools
            /\ tool_to_session' = tool_to_session
            /\ err' = "none"
            /\ si' = si + 1
            /\ pc' = IF si < NumServers THEN "b_connect" ELSE "b_request"]_vars

C19_Witness ==
    /\ variant = "be" /\ pc = "b_stream"
    /\ sessions = <<2>>
    /\ DOMAIN tool_to_session = {SERVER_TOOLS[2]}

(* C20. When tool servers are configured and none of them connected, the   *)
(* run ends with a terminal error event, not with done.                    *)
C20_NoServerIsFatal ==
    (RunEnded /\ NumServers >= 1 /\ sessions = <<>>)
        => (err # "none" /\ events[Len(events)].type = "error")

-----------------------------------------------------------------------------
(* C21. Tool names are unique in the registry of one backend request: a    *)
(* server that lists a name which is already registered does not get it    *)
(* registered (its registration fails with an error event), so all_tools   *)
(* never holds a name twice and an entry of tool_to_session, once written, *)
(* is never overwritten.                                                   *)
NamesUnique(tools) ==
    \A i, j \in 1..Len(tools) : tools[i].name = tools[j].name => i = j

DuplicateListed ==
    /\ variant = "be"
    /\ pc = "b_connect"
    /\ \E k \in 1..Len(ServerTools(si)) : ServerTools(si)[k] \in DOMAIN tool_to_session

C21_ToolNamesUnique ==
    /\ [](variant = "be" => NamesUnique(all_tools))
    /\ [][variant = "be" =>
            /\ \A n \in DOMAIN tool_to_session :
                 n \in DOMAIN tool_to_session' /\ tool_to_session'[n] = tool_to_session[n]
            /\ (DuplicateListed /\ sessions' # sessions)
                 => events'[Len(events')].type = "error"]_vars

(* C22. In the streaming backend one model request or one tool call is    *)
(* made per step: the calls of a response are executed one at a time in    *)
(* the order the model returned them (the results always answer a prefix   *)
(* of the calls), a step that executes a call issues no model request, and *)
(* a model request is issued only when every call of the round has its     *)
(* result.                                                                 *)
ModelRequestStep ==
    /\ variant = "be"
    /\ pc = "b_request"
    /\ pc' # "b_request"

ToolCallStep ==
    /\ variant = "be"
    /\ pc = "b_dispatch"
    /\ results' # results

C22_OneCallAtATime ==
    /\ [](variant = "be" =>
            /\ Len(results) <= Len(function_calls)
            /\ \A i \in 1..Len(results) : results[i].idx = function_calls[i].key
            /\ pc = "b_dispatch" => ci = Len(results) + 1)
    /\ [][variant = "be" =>
            /\ ModelRequestStep => Len(results) = Len(function_calls)
            /\ ToolCallStep =>
                 /\ Len(results') = Len(results) + 1
                 /\ response' = response
                 /\ function_calls' = function_calls
            /\ results' # results => (ModelRequestStep \/ ToolCallStep)]_vars

C22_Witness ==
    /\ variant = "be"
    /\ pc = "b_request"
    /\ Len(function_calls) = 2
    /\ Len(results) = 2

-----------------------------------------------------------------------------
(* convert_mcp_to_gemini_schema on its own: the three definitions of the   *)
(* repository applied to the inputSchema of a tool                         *)

\* a JSON schema is a dict: a function from its keys to their values
Get(d, k, default) == IF k \in DOMAIN d THEN d[k] ELSE default

\* {}
EmptyDict == [k \in {} |-> ""]

\* schemas of leaf parameters: a typed one, and one without a "type" key
LeafSchemas ==
    {[type |-> t, description |-> "d"] : t \in {"string", "integer"}}
    \cup {[description |-> "d"]}

\* the schemas a property may have, nested at most d levels deep
RECURSIVE PropSchemas(_)
PropSchemas(d) ==
    IF d = 0 THEN LeafSchemas
    ELSE LeafSchemas
         \cup {[type |-> "object", description |-> "d",
                properties |-> [k \in {"p"} |-> s], required |-> r] :
                   s \in PropSchemas(d - 1), r \in {<<>>, <<"p">>}}
         \cup {[type |-> "array", description |-> "d", items |-> s] :
                   s \in PropSchemas(d - 1)}

\* tool.inputSchema: an object schema with one parameter
InputSchemas ==
    {[type |-> "object", properties |-> [k \in {"p"} |-> s], required |-> r] :
        s \in PropSchemas(MaxDepth), r \in {<<>>, <<"p">>}}

\* src/mcp_server/_mcp_be.py lines 64-68: the tag of a primitive type
PrimitiveTag(typ) ==
    CASE typ = "string" -> "STRING"
      [] typ = "integer" -> "INTEGER"
      [] typ = "number" -> "NUMBER"
      [] typ = "boolean" -> "BOOLEAN"
      [] OTHER -> "STRING"

\* src/mcp_server/_mcp_be.py lines 45-71
RECURSIVE be_convert_mcp_to_gemini_schema(_)
be_convert_mcp_to_gemini_schema(schema) ==
    LET typ == Get(schema, "type", "None") IN
    IF DOMAIN schema = {} THEN [type |-> "STRING"]
    ELSE IF typ = "object" \/ "properties" \in DOMAIN schema
    THEN LET properties == Get(schema, "properties", EmptyDict) IN
         [type |-> "OBJECT",
          properties |-> [k \in DOMAIN properties |->
                             be_convert_mcp_to_gemini_schema(properties[k])],
          required |-> Get(schema, "required", <<>>)]
    ELSE IF typ = "array"
    THEN [type |-> "ARRAY",
          items |-> be_convert_mcp_to_gemini_schema(Get(schema, "items", EmptyDict)),
          description |-> Get(schema, "description", "")]
    ELSE [type |-> PrimitiveTag(typ),
          description |-> Get(schema, "description", "")]

\* src/agent_server.py lines 58-65, src/mcp_client.py lines 46-53:
\* type_mapping.get(prop_type, "STRING")
type_mapping(prop_type) ==
    CASE prop_type = "string" -> "STRING"
      [] prop_type = "integer" -> "INTEGER"
      [] prop_type = "number" -> "NUMBER"
      [] prop_type = "boolean" -> "BOOLEAN"
      [] prop_type = "array" -> "ARRAY"
      [] prop_type = "object" -> "OBJECT"
      [] OTHER -> "STRING"

\* src/agent_server.py lines 48-76
agent_convert_mcp_to_gemini_schema(mcp_schema) ==
    LET properties == Get(mcp_schema, "properties", EmptyDict)
        required == Get(mcp_schema, "required", <<>>)
    IN  [type |-> "OBJECT",
         properties |-> [prop_name \in DOMAIN properties |->
              [type |-> type_mapping(Get(properties[prop_name], "type", "string")),
               description |-> Get(properties[prop_name], "description", "")]],
         required |-> required]

\* src/mcp_client.py lines 34-64: the same text as the agent's
cli_convert_mcp_to_gemini_schema(mcp_schema) ==
    LET properties == Get(mcp_schema, "properties", EmptyDict)
        required == Get(mcp_schema, "required", <<>>)
    IN  [type |-> "OBJECT",
         properties |-> [prop_name \in DOMAIN properties |->
              [type |-> type_mapping(Get(properties[prop_name], "type", "string")),
               description |-> Get(properties[prop_name], "description", "")]],
         required |-> required]

InitSchema ==
    /\ Idle
    /\ config = NoConfig
    /\ other = NoFrame
    /\ variant = "schema" /\ provider = "gemini" /\ pc = "s_call"
    /\ current_model = "" /\ messages = <<>> /\ response = NoResponse
    /\ fn \in {"be", "agent", "cli"}
    /\ call_args \in InputSchemas
    /\ returned = <<>>

\* _mcp_be.py line 188: parameters=convert_mcp_to_gemini_schema(t.inputSchema)
SchemaBe ==
    /\ variant = "schema" /\ pc = "s_call" /\ fn = "be"
    /\ returned' = be_convert_mcp_to_gemini_schema(call_args)
    /\ pc' = "s_return"
    /\ UNCHANGED <<variant, provider, turn_excluded, config, clock, call_args, fn, closed, tool_to_session, all_tools, sessions, si, origin, other, rid, chat, exc, response, outmsg, results, rounds, execs,
                   lastTool, commands, final_text, status, err, mi, current_model, excluded,
                   tried, ctx, function_calls, ci, turn, messages, events,
                   instFail, last_error>>

\* agent_server.py line 250
SchemaAgent ==
    /\ variant = "schema" /\ pc = "s_call" /\ fn = "agent"
    /\ returned' = agent_convert_mcp_to_gemini_schema(call_args)
    /\ pc' = "s_return"
    /\ UNCHANGED <<variant, provider, turn_excluded, config, clock, call_args, fn, closed, tool_to_session, all_tools, sessions, si, origin, other, rid, chat, exc, response, outmsg, results, rounds, execs,
                   lastTool, commands, final_text, status, err, mi, current_model, excluded,
                   tried, ctx, function_calls, ci, turn, messages, events,
                   instFail, last_error>>

\* mcp_client.py line 107
SchemaCli ==
    /\ variant = "schema" /\ pc = "s_call" /\ fn = "cli"
    /\ returned' = cli_convert_mcp_to_gemini_schema(call_args)
    /\ pc' = "s_return"
    /\ UNCHANGED <<variant, provider, turn_excluded, config, clock, call_args, fn, closed, tool_to_session, all_tools, sessions, si, origin, other, rid, chat, exc, response, outmsg, results, rounds, execs,
                   lastTool, commands, final_text, status, err, mi, current_model, excluded,
                   tried, ctx, function_calls, ci, turn, messages, events,
                   instFail, last_error>>

NextSchema == SchemaBe \/ SchemaAgent \/ SchemaCli

SpecSchema == InitSchema /\ [][NextSchema]_vars

(* C23. Whatever the variant, the schema that convert_mcp_to_gemini_schema *)
(* returns mirrors the input at every depth: a node for each input node,   *)
(* with the tag of its type (OBJECT with the translated properties, ARRAY  *)
(* with the translated items, the primitive tags, STRING for an untyped    *)
(* node).                                                                  *)
TagOf(s) ==
    LET typ == Get(s, "type", "None") IN
    CASE typ = "object" -> "OBJECT"
      [] typ = "array" -> "ARRAY"
      [] OTHER -> PrimitiveTag(typ)

RECURSIVE Mirrors(_, _)
Mirrors(s, g) ==
    /\ "type" \in DOMAIN g
    /\ g.type = TagOf(s)
    /\ "properties" \in DOMAIN s =>
         /\ "properties" \in DOMAIN g
         /\ DOMAIN g.properties = DOMAIN s.properties
         /\ \A k \in DOMAIN s.properties : Mirrors(s.properties[k], g.properties[k])
    /\ "items" \in DOMAIN s =>
         /\ "items" \in DOMAIN g
         /\ Mirrors(s.items, g.items)

C23_NoNestedLevelDropped ==
    (variant = "schema" /\ pc = "s_return") => Mirrors(call_args, returned)

(* C24. The returned schema keeps, for every node of the input, its        *)
(* description, and for every object node its required list.               *)
RECURSIVE Preserved(_, _)
Preserved(s, g) ==
    /\ "description" \in DOMAIN s =>
         "description" \in DOMAIN g /\ g.description = s.description
    /\ "required" \in DOMAIN s =>
         "required" \in DOMAIN g /\ g.required = s.required
    /\ "properties" \in DOMAIN s =>
         /\ "properties" \in DOMAIN g
         /\ \A k \in DOMAIN s.properties :
              k \in DOMAIN g.properties /\ Preserved(s.properties[k], g.properties[k])
    /\ "items" \in DOMAIN s =>
         "items" \in DOMAIN g /\ Preserved(s.items, g.items)

C24_DescriptionAndRequiredKept ==
    (variant = "schema" /\ pc = "s_return") => Preserved(call_args, returned)

-----------------------------------------------------------------------------
(* check_mcp of src/mcp_server/_mcp_be.py on its own                       *)

\* a url is a string of blanks and other characters
UrlChars == {" ", "u"}

Urls == SeqsUpTo(UrlChars, MaxUrlLen)

\* str.strip(): leading and trailing blanks removed
RECURSIVE strip(_)
strip(s) ==
    IF s = <<>> THEN s
    ELSE IF Head(s) = " " THEN strip(Tail(s))
    ELSE IF s[Len(s)] = " " THEN strip(SubSeq(s, 1, Len(s) - 1))
    ELSE s

\* what the server behind the url does with the connection attempt, and
\* after how many seconds: it lets sse_client enter its context, it makes
\* sse_client raise (refused, not an SSE endpoint, ...), or it never answers
ServerBehaviours ==
    [kind : {"accepts", "refuses"}, after : 0..MaxDelay]
    \cup {[kind |-> "silent", after |-> 0]}

StatusMapping(s, m) == [status |-> s, message |-> m]

\* both handlers answering alike
HandlerMessageSame(e) == "Connection failed: e"

\* lines 505-508: except asyncio.TimeoutError / except Exception as e
HandlerMessage(e) ==
    IF e = "TimeoutError" THEN "Connection timed out" ELSE "Connection failed: e"

InitCheck ==
    /\ Idle
    /\ config = NoConfig
    /\ other = NoFrame
    /\ variant = "check" /\ provider = "gemini" /\ pc = "m_call"
    /\ current_model = "" /\ messages = <<>> /\ response = NoResponse
    /\ fn = "check_mcp"
    /\ call_args \in [url : Urls, server : ServerBehaviours]
    /\ returned = <<>>

\* lines 493-495 and 502: url = req.url.strip(); an empty url is answered at
\* once, otherwise try_connect is awaited under wait_for
CheckCall ==
    /\ variant = "check"
    /\ pc = "m_call"
    /\ IF strip(call_args.url) = <<>>
       THEN /\ returned' = StatusMapping("error", "Empty URL")
            /\ pc' = "m_return"
       ELSE /\ pc' = "m_wait"
            /\ UNCHANGED returned
    /\ UNCHANGED <<variant, provider, turn_excluded, config, clock, call_args, fn, closed, tool_to_session, all_tools, sessions, si, origin, other, rid, chat, exc, response, outmsg, results, rounds, execs,
                   lastTool, commands, final_text, status, err, mi, current_model, excluded,
                   tried, ctx, function_calls, ci, turn, messages, events,
                   instFail, last_error>>

\* a second passes while wait_for is pending: neither the server has
\* answered nor the timeout has expired
CheckTick ==
    /\ variant = "check"
    /\ pc = "m_wait"
    /\ clock < timeout
    /\ call_args.server.kind = "silent" \/ clock < call_args.server.after
    /\ clock' = clock + 1
    /\ UNCHANGED <<variant, provider, turn_excluded, config, call_args, returned, fn, closed, tool_to_session, all_tools, sessions, si, origin, other, rid, chat, exc, pc, response, outmsg, results, rounds, execs,
                   lastTool, commands, final_text, status, err, mi, current_model, excluded,
                   tried, ctx, function_calls, ci, turn, messages, events,
                   instFail, last_error>>

\* lines 498-503: the context of sse_client is entered and left, wait_for
\* returns
CheckEntered ==
    /\ variant = "check"
    /\ pc = "m_wait"
    /\ call_args.server.kind = "accepts"
    /\ clock = call_args.server.after
    /\ returned' = StatusMapping("connected", "Successfully connected")
    /\ pc' = "m_return"
    /\ UNCHANGED <<variant, provider, turn_excluded, config, clock, call_args, fn, closed, tool_to_session, all_tools, sessions, si, origin, other, rid, chat, exc, response, outmsg, results, rounds, execs,
                   lastTool, commands, final_text, status, err, mi, current_model, excluded,
                   tried, ctx, function_calls, ci, turn, messages, events,
                   instFail, last_error>>

\* lines 507-508: sse_client raises inside try_connect
CheckRaised ==
    /\ variant = "check"
    /\ pc = "m_wait"
    /\ call_args.server.kind = "refuses"
    /\ clock = call_args.server.after
    /\ returned' = StatusMapping("error", HandlerMessage("Exception"))
    /\ pc' = "m_return"
    /\ UNCHANGED <<variant, provider, turn_excluded, config, clock, call_args, fn, closed, tool_to_session, all_tools, sessions, si, origin, other, rid, chat, exc, response, outmsg, results, rounds, execs,
                   lastTool, commands, final_text, status, err, mi, current_model, excluded,
                   tried, ctx, function_calls, ci, turn, messages, events,
                   instFail, last_error>>

\* lines 502 and 505-506: the timeout expires, wait_for cancels try_connect
\* and raises asyncio.TimeoutError
CheckTimeout ==
    /\ variant = "check"
    /\ pc = "m_wait"
    /\ clock = timeout
    /\ returned' = StatusMapping("error", HandlerMessage("TimeoutError"))
    /\ pc' = "m_return"
    /\ UNCHANGED <<variant, provider, turn_excluded, config, clock, call_args, fn, closed, tool_to_session, all_tools, sessions, si, origin, other, rid, chat, exc, response, outmsg, results, rounds, execs,
                   lastTool, commands, final_text, status, err, mi, current_model, excluded,
                   tried, ctx, function_calls, ci, turn, messages, events,
                   instFail, last_error>>

NextCheck ==
    \/ CheckCall
    \/ CheckTick
    \/ CheckEntered
    \/ CheckRaised
    \/ CheckTimeout

\* the event loop runs the handler and the timer of wait_for
SpecCheck == InitCheck /\ [][NextCheck]_vars /\ WF_vars(NextCheck)

(* C25. check_mcp always returns a status mapping, at the latest when the  *)
(* 5 seconds of the timeout have passed: connected when the connection was *)
(* entered within the timeout, otherwise error, with "Empty URL" for a     *)
(* blank url, "Connection timed out" when the timeout expired and          *)
(* "Connection failed: ..." when the connection attempt raised.            *)
CheckAnswer ==
    LET url == strip(call_args.url)
        server == call_args.server
    IN  IF url = <<>> THEN {StatusMapping("error", "Empty URL")}
        ELSE IF server.kind = "accepts" /\ server.after < timeout
             THEN {StatusMapping("connected", "Successfully connected")}
        ELSE IF server.kind = "refuses" /\ server.after < timeout
             THEN {StatusMapping("error", "Connection failed: e")}
        ELSE IF server.kind = "silent" \/ server.after > timeout
             THEN {StatusMapping("error", "Connection timed out")}
        \* the answer arrives in the second the timeout expires
        ELSE {StatusMapping("error", "Connection timed out"),
              IF server.kind = "accepts"
              THEN StatusMapping("connected", "Successfully connected")
              ELSE StatusMapping("error", "Connection failed: e")}

C25_CheckMcpAlwaysAnswers ==
    /\ [](variant = "check" =>
            /\ clock <= timeout
            /\ pc = "m_return" => returned \in CheckAnswer)
    /\ (variant = "check" => <>(pc = "m_return"))

C25_Witness ==
    /\ variant = "check"
    /\ pc = "m_return"
    /\ call_args.server.kind = "accepts"
    /\ call_args.server.after > timeout
    /\ clock = timeout
    /\ returned = StatusMapping("error", "Connection timed out")

(* C26. In the streaming backend a client initialisation that fails (no    *)
(* key for the provider, the provider's module not installed, an unknown   *)
(* provider) ends the run at once: one error event, which is the last      *)
(* event, no tool server connected or tried and no model request made.     *)
MissingCredential ==
    /\ provider \in {"gemini", "openai", "groq"}
    /\ config.api_key = "" /\ config.env_key = ""
    /\ ~(provider = "openai" /\ config.base_url # "")

ModuleNotInstalled == provider \in {"openai", "groq"} /\ ~config.installed

UnknownProvider == provider \notin {"gemini", "openai", "groq"}

ErrorEvents(evs) == {i \in 1..Len(evs) : evs[i].type = "error"}

C26_ClientInitFailureIsImmediate ==
    /\ [][(variant = "be" /\ pc = "b_init"
             /\ (MissingCredential \/ ModuleNotInstalled \/ UnknownProvider)) =>
            /\ pc' = "b_done"
            /\ err' = "config_error"]_vars
    /\ []((variant = "be" /\ err = "config_error") =>
            /\ pc = "b_done"
            /\ ErrorEvents(events) = {Len(events)}
            /\ si = 1 /\ sessions = <<>> /\ all_tools = <<>>
            /\ turn = 0 /\ rounds = 0 /\ outmsg = NoMsg
            /\ response \in {<<>>, NoChatResponse})

C26_Witness ==
    /\ variant = "be" /\ provider = "openai"
    /\ pc = "b_done"
    /\ err = "config_error"
    /\ events = <<Event("status", 0), Event("error", 0)>>

-----------------------------------------------------------------------------
(* The listing tools of the shapes servers on their own                    *)

Min2(a, b) == IF a <= b THEN a ELSE b

Max2(a, b) == IF a >= b THEN a ELSE b

\* seq[:n] of Python: the first n elements, or all but the last -n of them
\* when n is negative
Slice(seq, n) ==
    IF n >= 0 THEN SubSeq(seq, 1, Min2(n, Len(seq)))
    ELSE SubSeq(seq, 1, Max2(Len(seq) + n, 0))

\* the records left by the filters of a call, named by their position
Filtered(n) == [i \in 1..n |-> i]

ListingTools ==
    {"find_objects", "get_object_locations", "search_by_criteria",
     "analyze_sprinklers", "analyze_pipe_group", "root_find_objects"}

\* the returned dict: the number found, the number returned, the list
ListingResult(matches, shown) ==
    [found |-> Len(matches), returned |-> Len(shown), results |-> shown]

InitListing ==
    /\ Idle
    /\ other = NoFrame
    /\ config = NoConfig
    /\ variant = "listing" /\ provider = "gemini" /\ pc = "l_call"
    /\ current_model = "" /\ messages = <<>> /\ response = NoResponse
    /\ fn \in ListingTools
    /\ call_args \in [filtered : {Filtered(n) : n \in 0..MaxRecords}, limit : (-2)..MaxLimit]
    /\ returned = <<>>

\* src/mcp_server/MCP_server.py lines 75-126
FindObjects ==
    /\ variant = "listing" /\ pc = "l_call" /\ fn = "find_objects"
    /\ LET filtered == call_args.filtered
           limit == call_args.limit
       IN  returned' = ListingResult(filtered, Slice(filtered, Min2(limit, 50)))
    /\ pc' = "l_return"
    /\ UNCHANGED <<variant, provider, turn_excluded, config, clock, call_args, fn, closed, tool_to_session, all_tools, sessions, si, origin, other, rid, chat, exc, response, outmsg, results, rounds, execs,
                   lastTool, commands, final_text, status, err, mi, current_model, excluded,
                   tried, ctx, function_calls, ci, turn, messages, events,
                   instFail, last_error>>

\* src/mcp_server/MCP_server.py lines 128-176
GetObjectLocations ==
    /\ variant = "listing" /\ pc = "l_call" /\ fn = "get_object_locations"
    /\ LET filtered == call_args.filtered
           limit == call_args.limit
       IN  returned' = ListingResult(filtered, Slice(filtered, limit))
    /\ pc' = "l_return"
    /\ UNCHANGED <<variant, provider, turn_excluded, config, clock, call_args, fn, closed, tool_to_session, all_tools, sessions, si, origin, other, rid, chat, exc, response, outmsg, results, rounds, execs,
                   lastTool, commands, final_text, status, err, mi, current_model, excluded,
                   tried, ctx, function_calls, ci, turn, messages, events,
                   instFail, last_error>>

\* src/mcp_server/MCP_server.py lines 254-306: filtered[:20]
SearchByCriteria ==
    /\ variant = "listing" /\ pc = "l_call" /\ fn = "search_by_criteria"
    /\ LET filtered == call_args.filtered
           limit == call_args.limit
       IN  returned' = ListingResult(filtered, Slice(filtered, 20))
    /\ pc' = "l_return"
    /\ UNCHANGED <<variant, provider, turn_excluded, config, clock, call_args, fn, closed, tool_to_session, all_tools, sessions, si, origin, other, rid, chat, exc, response, outmsg, results, rounds, execs,
                   lastTool, commands, final_text, status, err, mi, current_model, excluded,
                   tried, ctx, function_calls, ci, turn, messages, events,
                   instFail, last_error>>

\* src/mcp_server/MCP_server.py lines 308-380
AnalyzeSprinklers ==
    /\ variant = "listing" /\ pc = "l_call" /\ fn = "analyze_sprinklers"
    /\ LET filtered == call_args.filtered
           limit == call_args.limit
       IN  returned' = ListingResult(filtered, Slice(filtered, Min2(limit, 50)))
    /\ pc' = "l_return"
    /\ UNCHANGED <<variant, provider, turn_excluded, config, clock, call_args, fn, closed, tool_to_session, all_tools, sessions, si, origin, other, rid, chat, exc, response, outmsg, results, rounds, execs,
                   lastTool, commands, final_text, status, err, mi, current_model, excluded,
                   tried, ctx, function_calls, ci, turn, messages, events,
                   instFail, last_error>>

\* src/mcp_server/MCP_server.py lines 382-440
AnalyzePipeGroup ==
    /\ variant = "listing" /\ pc = "l_call" /\ fn = "analyze_pipe_group"
    /\ LET filtered == call_args.filtered
           limit == call_args.limit
       IN  returned' = ListingResult(filtered, Slice(filtered, Min2(limit, 50)))
    /\ pc' = "l_return"
    /\ UNCHANGED <<variant, provider, turn_excluded, config, clock, call_args, fn, closed, tool_to_session, all_tools, sessions, si, origin, other, rid, chat, exc, response, outmsg, results, rounds, execs,
                   lastTool, commands, final_text, status, err, mi, current_model, excluded,
                   tried, ctx, function_calls, ci, turn, messages, events,
                   instFail, last_error>>

\* src/MCP_server.py lines 85-130: find_objects of the stdio server
RootFindObjects ==
    /\ variant = "listing" /\ pc = "l_call" /\ fn = "root_find_objects"
    /\ LET filtered == call_args.filtered
           limit == call_args.limit
       IN  returned' = ListingResult(filtered, Slice(filtered, limit))
    /\ pc' = "l_return"
    /\ UNCHANGED <<variant, provider, turn_excluded, config, clock, call_args, fn, closed, tool_to_session, all_tools, sessions, si, origin, other, rid, chat, exc, response, outmsg, results, rounds, execs,
                   lastTool, commands, final_text, status, err, mi, current_model, excluded,
                   tried, ctx, function_calls, ci, turn, messages, events,
                   instFail, last_error>>

NextListing ==
    \/ FindObjects
    \/ GetObjectLocations
    \/ SearchByCriteria
    \/ AnalyzeSprinklers
    \/ AnalyzePipeGroup
    \/ RootFindObjects

SpecListing == InitListing /\ [][NextListing]_vars

(* C27. Whatever its arguments, a listing tool returns at most its hard    *)
(* cap of records (20 for get_object_locations and search_by_criteria, 50  *)
(* for the others), reports as returned the length of the list, and never  *)
(* reports more returned than found.                                       *)
HardCap(f) ==
    IF f \in {"get_object_locations", "search_by_criteria"} THEN 20 ELSE 50

C27_ListingCapped ==
    (variant = "listing" /\ pc = "l_return") =>
        /\ Len(returned.results) <= HardCap(fn)
        /\ returned.returned = Len(returned.results)
        /\ returned.returned <= returned.found

-----------------------------------------------------------------------------
(* The text taken from the result of a tool call, on its own               *)

\* a text is a sequence of characters
ItemTexts == SeqsUpTo({"a", "b"}, MaxTextLen)

\* a content item of a CallToolResult: TextContent has a text, the other
\* kinds (image, resource) have none
ContentItems == {[type |-> "text", text |-> t] : t \in ItemTexts} \cup {[type |-> "image"]}

\* result.content
Contents == SeqsUpTo(ContentItems, MaxItems)

\* str(result), the printed form of the result object: a text that is no
\* concatenation of item texts
StrOfResult == <<"content=[]">>

\* tool_output += item.text for the items that have a text, in order
RECURSIVE JoinTexts(_)
JoinTexts(content) ==
    IF content = <<>> THEN <<>>
    ELSE (IF "text" \in DOMAIN Head(content) THEN Head(content).text ELSE <<>>)
         \o JoinTexts(Tail(content))

\* agent_server.py lines 329-333, mcp_client.py lines 257-261
loop_tool_output(content) == IF content # <<>> THEN JoinTexts(content) ELSE <<>>

\* _mcp_be.py lines 236-240 (and 329-333, 420-424): an empty content list
\* falls to str(result)
be_tool_output(content) == IF content # <<>> THEN JoinTexts(content) ELSE StrOfResult

InitOutput ==
    /\ Idle
    /\ other = NoFrame
    /\ config = NoConfig
    /\ variant = "output" /\ provider = "gemini" /\ pc = "o_call"
    /\ current_model = "" /\ messages = <<>> /\ response = NoResponse
    /\ fn \in {"agent", "cli", "be"}
    /\ call_args \in Contents
    /\ returned = <<>>

\* agent_server.py lines 326-341: response={"result": tool_output}
OutputAgent ==
    /\ variant = "output" /\ pc = "o_call" /\ fn = "agent"
    /\ returned' = loop_tool_output(call_args)
    /\ pc' = "o_return"
    /\ UNCHANGED <<variant, provider, turn_excluded, config, clock, call_args, fn, closed, tool_to_session, all_tools, sessions, si, origin, other, rid, chat, exc, response, outmsg, results, rounds, execs,
                   lastTool, commands, final_text, status, err, mi, current_model, excluded,
                   tried, ctx, function_calls, ci, turn, messages, events,
                   instFail, last_error>>

\* mcp_client.py lines 254-269
OutputCli ==
    /\ variant = "output" /\ pc = "o_call" /\ fn = "cli"
    /\ returned' = loop_tool_output(call_args)
    /\ pc' = "o_return"
    /\ UNCHANGED <<variant, provider, turn_excluded, config, clock, call_args, fn, closed, tool_to_session, all_tools, sessions, si, origin, other, rid, chat, exc, response, outmsg, results, rounds, execs,
                   lastTool, commands, final_text, status, err, mi, current_model, excluded,
                   tried, ctx, function_calls, ci, turn, messages, events,
                   instFail, last_error>>

\* _mcp_be.py lines 234-249, 327-341, 417-432
OutputBe ==
    /\ variant = "output" /\ pc = "o_call" /\ fn = "be"
    /\ returned' = be_tool_output(call_args)
    /\ pc' = "o_return"
    /\ UNCHANGED <<variant, provider, turn_excluded, config, clock, call_args, fn, closed, tool_to_session, all_tools, sessions, si, origin, other, rid, chat, exc, response, outmsg, results, rounds, execs,
                   lastTool, commands, final_text, status, err, mi, current_model, excluded,
                   tried, ctx, function_calls, ci, turn, messages, events,
                   instFail, last_error>>

NextOutput == OutputAgent \/ OutputCli \/ OutputBe

SpecOutput == InitOutput /\ [][NextOutput]_vars

(* C28. In every variant the text fed back to the model for a successful   *)
(* tool call is the texts of the content items of the result, joined in    *)
(* order, and nothing else.                                                *)
C28_ToolResultTextExact ==
    (variant = "output" /\ pc = "o_return") => returned = JoinTexts(call_args)

(* C29. The text delivered for a turn holds, in order, every text part of  *)
(* the final model response (the one without function calls): the agent's  *)
(* and the CLI's final_text is the texts of all its parts, and the         *)
(* streaming backend has emitted one text_chunk event, in order, for every *)
(* text part of every chunk of its stream.                                 *)
IsTextPart(part) == part.kind = "text"

TextBodiesOf(parts) ==
    LET texts == SelectSeq(parts, IsTextPart) IN
    [i \in 1..Len(texts) |-> texts[i].body]

HasNoCalls(parts) == \A i \in 1..Len(parts) : parts[i].kind # "fc"

StreamTextKeys ==
    {CallKey(c, p) : c \in 1..Len(response), p \in 1..MaxParts} \cap
    UNION {{CallKey(c, p) : p \in {q \in 1..Len(response[c]) : response[c][q].kind = "text"}} :
              c \in 1..Len(response)}

TextChunkEvents == SelectSeq(events, LAMBDA e : e.type = "text_chunk")

C29_FinalTextComplete ==
    /\ (variant = "agent" /\ pc = "a_done" /\ status = 200 /\ HasNoCalls(response.parts))
          => final_text = TextBodiesOf(response.parts)
    /\ (variant = "cli" /\ pc = "c_done" /\ response.shape = "parts" /\ HasNoCalls(response.parts))
          => final_text = TextBodiesOf(response.parts)
    /\ (variant = "be" /\ provider = "gemini" /\ pc = "b_done" /\ err \in {"none", "close_error"})
          => /\ {TextChunkEvents[i].key : i \in 1..Len(TextChunkEvents)} = StreamTextKeys
             /\ \A i, j \in 1..Len(TextChunkEvents) :
                   i < j => TextChunkEvents[i].key < TextChunkEvents[j].key

(* C30. In the streaming backend every tool call the model issued in a     *)
(* response has, by the time the round is over (the next model request is  *)
(* due or the run has ended), exactly one tool_call event followed by      *)
(* exactly one tool_result or error event for that call, and no            *)
(* tool_result event is without an earlier tool_call event of its call.    *)
IssuedCallKeys ==
    IF provider = "gemini"
    THEN UNION {{CallKey(c, p) : p \in {q \in 1..Len(response[c]) : response[c][q].kind = "fc"}} :
                   c \in 1..Len(response)}
    ELSE {CallId(turn, i) : i \in 1..Len(response.calls)}

RoundOver ==
    /\ variant = "be"
    /\ pc \in {"b_request", "b_done"}
    /\ err \in {"none", "close_error"}

EventsOf(types, k) == {i \in 1..Len(events) : events[i].type \in types /\ events[i].key = k}

C30_ToolEventsPaired ==
    RoundOver =>
        /\ \A k \in IssuedCallKeys :
              /\ Cardinality(EventsOf({"tool_call"}, k)) = 1
              /\ Cardinality(EventsOf({"tool_result", "error"}, k)) = 1
              /\ \A i \in EventsOf({"tool_call"}, k), j \in EventsOf({"tool_result", "error"}, k) : i < j
        /\ \A j \in 1..Len(events) :
              events[j].type = "tool_result" =>
                 \E i \in 1..(j - 1) : events[i].type = "tool_call" /\ events[i].key = events[j].key

-----------------------------------------------------------------------------
(* C31. In the CLI the dispatch loop of a turn executes a function call of *)
(* a model response at most once: after call_tool, or the send of its      *)
(* result, has raised, the loop does not run the call of that same         *)
(* response again.                                                         *)
C31_CliCallExecutedOnce ==
    variant = "cli" => execs <= 1

(* C32. In the agent a model response without candidates or without parts  *)
(* ends the turn normally: status 200, an empty final text and the         *)
(* commands collected so far.                                              *)
C32_EmptyResponseEndsNormally ==
    [][(variant = "agent" /\ pc = "a_extract" /\ NoParts(response)) =>
          /\ pc' = "a_done"
          /\ status' = 200
          /\ err' = "none"
          /\ final_text' = <<>>
          /\ commands' = commands]_vars

-----------------------------------------------------------------------------
(* agent: the reply built from the final text, as a computation of its own *)

\* ChatResponse.commands is Optional[List[Dict[str, Any]]]: pydantic accepts
\* the list only when every entry is a mapping
ChatResponseValid(cmds) == \A i \in 1..Len(cmds) : IsDict(cmds[i])

\* lines 366-402: the legacy parsing, then ChatResponse(text=..., commands=...)
\* inside the try whose handler answers 500
ParseReply(cmds, text) ==
    LET parsed == LegacyParse(cmds, text) IN
    IF ChatResponseValid(parsed)
    THEN [status |-> 200, commands |-> parsed]
    ELSE [status |-> 500, commands |-> <<>>]

\* the command list at line 358: empty, or holding an intercepted tool call
QueuedBefore == {<<>>, <<[command |-> "highlight"]>>}

FinalTexts == UNION {[1..n -> ParseBodies] : n \in 0..MaxParts}

InitParse ==
    /\ Idle
    /\ other = NoFrame
    /\ config = NoConfig
    /\ variant = "parse" /\ provider = "gemini" /\ pc = "p_call"
    /\ current_model = "" /\ messages = <<>> /\ response = NoResponse
    /\ fn = "parse"
    /\ call_args \in [commands : QueuedBefore, text : FinalTexts]
    /\ returned = <<>>

ParseCall ==
    /\ variant = "parse" /\ pc = "p_call"
    /\ returned' = ParseReply(call_args.commands, call_args.text)
    /\ pc' = "p_return"
    /\ UNCHANGED <<variant, provider, turn_excluded, config, clock, call_args, fn, closed, tool_to_session, all_tools, sessions, si, origin, other, rid, chat, exc, response, outmsg, results, rounds, execs,
                   lastTool, commands, final_text, status, err, mi, current_model, excluded,
                   tried, ctx, function_calls, ci, turn, messages, events,
                   instFail, last_error>>

NextParse == ParseCall

SpecParse == InitParse /\ [][NextParse]_vars

(* C33. Every entry of the command list returned by /chat is a mapping     *)
(* that has a command name, whatever JSON the final text embeds, and such  *)
(* embedded JSON never makes the request fail.                             *)
C33_CommandsAreNamed ==
    (variant = "parse" /\ pc = "p_return") =>
        /\ returned.status = 200
        /\ \A i \in 1..Len(returned.commands) :
              /\ IsDict(returned.commands[i])
              /\ "command" \in DOMAIN returned.commands[i]

-----------------------------------------------------------------------------
(* agent: the command made of an intercepted client tool call, as a        *)
(* computation of its own                                                  *)

\* parameter names the model may supply in fc.args, and their values
ArgKeys == {"command", "action", "criteria"}

ArgValues == {"show", "zoom"}

ModelArgs == UNION {[ks -> ArgValues] : ks \in SUBSET ArgKeys}

InitCommand ==
    /\ Idle
    /\ other = NoFrame
    /\ config = NoConfig
    /\ variant = "command" /\ provider = "gemini" /\ pc = "k_call"
    /\ current_model = "" /\ messages = <<>> /\ response = NoResponse
    /\ fn \in CLIENT_TOOL_NAMES
    /\ call_args \in ModelArgs
    /\ returned = <<>>

\* lines 308-313: the intercepted call becomes a command
CommandCall ==
    /\ variant = "command" /\ pc = "k_call"
    /\ returned' = Command(fn, call_args)
    /\ pc' = "k_return"
    /\ UNCHANGED <<variant, provider, turn_excluded, config, clock, call_args, fn, closed, tool_to_session, all_tools, sessions, si, origin, other, rid, chat, exc, response, outmsg, results, rounds, execs,
                   lastTool, commands, final_text, status, err, mi, current_model, excluded,
                   tried, ctx, function_calls, ci, turn, messages, events,
                   instFail, last_error>>

NextCommand == CommandCall

SpecCommand == InitCommand /\ [][NextCommand]_vars

(* C34. For every intercepted client tool call, the command field of the   *)
(* enqueued command equals the name of the called tool, also when the      *)
(* arguments supplied by the model contain a key named command.            *)
C34_CommandFieldIsToolName ==
    (variant = "command" /\ pc = "k_return") => returned.command = fn

\* one user turn of the cli (lines 224-291), with its history
InitTurn == Init /\ variant = "cli"

NextTurn == TurnUserTurn \/ TurnSafeSend \/ CliInspect \/ CliExtract

SpecTurn == InitTurn /\ [][NextTurn]_vars

(* C35. Within one user turn of the CLI client (the user message followed  *)
(* by its tool-result messages), a model that was excluded after a send    *)
(* failure is not selected again by a fallback triggered by a later send   *)
(* of the same turn.                                                       *)
C35_ExcludedModelNotReselected ==
    [][(variant = "cli" /\ pc = "c_send" /\ current_model' # current_model)
          => current_model' \notin turn_excluded]_vars

(* C36. The agent attempts the initial user message against the models of  *)
(* MODEL_PRIORITY in list order, each at most once, stops at the first     *)
(* model that returns a response, and uses the session of that same model  *)
(* for every later tool-result message of the request: once a model has    *)
(* answered, the chat is bound to it and no later model is tried.          *)
AgentAnswered ==
    variant = "agent" /\ pc # "a_models" /\ err # "all_models_failed"

C36_ModelsTriedInOrderThenKept ==
    /\ [](AgentAnswered => (mi <= Len(MODEL_PRIORITY) /\ current_model = MODEL_PRIORITY[mi]))
    /\ [][(variant = "agent" /\ rid' = rid) =>
            /\ mi' \in {mi, mi + 1}
            /\ (pc = "a_models" /\ pc' = "a_loop")
                  => (mi' = mi /\ current_model' = MODEL_PRIORITY[mi])
            /\ pc # "a_models" => (mi' = mi /\ current_model' = current_model)]_vars

\* the second model of the list has answered after the first one failed, and
\* the result of a tool call is being sent to it
C36_Witness ==
    /\ variant = "agent"
    /\ pc = "a_send_result"
    /\ rounds >= 1
    /\ mi = 2
    /\ current_model = MODEL_PRIORITY[2]

(* C37. On the groq and openai paths, before every model request the       *)
(* message list is well-formed: every tool_call id of every appended       *)
(* assistant message is answered by exactly one role=tool message with the *)
(* same id, appended after that assistant message and in the order of the  *)
(* calls, whether the call succeeded or failed.                            *)
AnswersTo(msgs, id) ==
    {q \in 1..Len(msgs) : msgs[q].role = "tool" /\ msgs[q].ids = <<id>>}

AnswerPos(msgs, id) == CHOOSE q \in AnswersTo(msgs, id) : TRUE

ToolCallsAnswered(msgs) ==
    \A p \in 1..Len(msgs) :
        msgs[p].role = "assistant" =>
            /\ \A j \in 1..Len(msgs[p].ids) :
                  /\ Cardinality(AnswersTo(msgs, msgs[p].ids[j])) = 1
                  /\ AnswerPos(msgs, msgs[p].ids[j]) > p
            /\ \A j, k \in 1..Len(msgs[p].ids) :
                  j < k => AnswerPos(msgs, msgs[p].ids[j]) < AnswerPos(msgs, msgs[p].ids[k])

C37_MessagesWellFormed ==
    (variant = "be" /\ provider \in {"groq", "openai"} /\ pc = "b_request")
        => ToolCallsAnswered(messages)

\* a request is about to be made after two calls of one response, one of
\* which raised
C37_Witness ==
    /\ variant = "be" /\ provider \in {"groq", "openai"} /\ pc = "b_request"
    /\ turn >= 1
    /\ Len(results) = 2
    /\ results[1].body = "tool_error"
    /\ results[2].body = "tool_output"
    /\ \E p \in 1..Len(messages) :
          messages[p].role = "assistant" /\ Len(messages[p].ids) = 2

(* C38. On the groq and openai paths a tool call whose argument string is  *)
(* not valid JSON is still dispatched, with an empty argument mapping: its *)
(* tool_call event reports empty args, the tool is invoked with no         *)
(* arguments, and the call is resolved to one tool result like any other   *)
(* call.                                                                   *)
BadArgsDispatch ==
    /\ variant = "be" /\ provider \in {"groq", "openai"} /\ pc = "b_dispatch"
    /\ ~JsonValid(function_calls[ci].arguments)

C38_BadArgsDispatchedEmpty ==
    [][BadArgsDispatch =>
         LET fc == function_calls[ci] IN
         /\ ci' = ci + 1
         /\ Len(events') >= Len(events) + 3
         /\ events'[Len(events) + 1] = ToolCallEvent(fc.key, NoArgs)
         /\ events'[Len(events) + 3].type \in {"tool_result", "error"}
         /\ events'[Len(events) + 3].key = fc.key
         /\ fc.name \in DOMAIN tool_to_session
               => call_args' = [name |-> fc.name, arguments |-> NoArgs]
         /\ messages' = Append(messages, Message("tool", <<fc.key>>, "text"))]_vars

\* a call with an unparsable argument string has been dispatched: the tool
\* was invoked and returned
C38_Witness ==
    /\ variant = "be" /\ provider \in {"groq", "openai"}
    /\ ci = 2
    /\ Len(function_calls) >= 1
    /\ ~JsonValid(function_calls[1].arguments)
    /\ lastTool = "ok"
    /\ call_args = [name |-> function_calls[1].name, arguments |-> NoArgs]
    /\ Len(events) >= 4
    /\ events[2] = ToolCallEvent(function_calls[1].key, NoArgs)
    /\ events[4] = Event("tool_result", function_calls[1].key)

====
